---- MODULE Spec2Model ----
(***************************************************************************)
(* Hash-chained audit ledger of the E24 Administrative Vault:              *)
(* canonicalize / computeHash / verifyLedger (services/crypto), the        *)
(* localStorage persistence layer (services/persistence) and the boot      *)
(* sequence, append queue and halt flag of AppContent (App.tsx).           *)
(*                                                                         *)
(* A JavaScript string is a sequence of tokens; a JavaScript value is a    *)
(* tagged record [t, v].  A digest is the token "0x" followed by the       *)
(* digested string, i.e. SHA-256 is taken to be collision free.            *)
(***************************************************************************)
EXTENDS Integers, Sequences, FiniteSets, TLC

\* ---------------------------------------------------------------- bounds
MaxSubmit  == 2     \* drafts submitted in one behaviour
MaxClock   == 1     \* the latest reading of the clock
MaxReloads == 1     \* page loads after the first one
MaxAsync   == 1     \* async UI tasks started in one behaviour
MaxVerify  == 1     \* integrity verifications in flight at a time
MaxChain   == 3     \* entries of a stored ledger handed to verifyLedger
MaxFlows   == 1     \* handleAnalyze runs of the BFO engine in one behaviour
MaxKeys    == 3     \* key pairs crypto.subtle.generateKey makes
MaxFiles   == 1     \* files in one selection of the ingestion pipeline
MaxIngest  == 3     \* events the drive scanner and the ingestion pipeline submit
MaxChecks  == 4     \* runCheck calls of the Vault that reach verifyLedger
MaxClicks  == 2     \* clicks on a commit button of the BFO engine
MaxCalls   == 2     \* generateKeyPair calls that may be in flight together

\* ------------------------------------------------------- JavaScript values
Str(s)    == [t |-> "str", v |-> s]
Undefined == [t |-> "undef", v |-> <<>>]
Null      == [t |-> "null", v |-> <<>>]
Arr(s)    == [t |-> "arr", v |-> s]
Obj(ps)   == [t |-> "obj", v |-> ps]
BigInt    == [t |-> "bigint", v |-> <<>>]
Lit(tok)  == [t |-> "lit", v |-> <<tok>>]     \* a number or a boolean, as JSON prints it
KV(k, x)  == [k |-> k, val |-> x]

EmptyString == Str(<<>>)
GENESIS     == Str(<<"GENESIS">>)

\* x || '' for an optional string field
OrEmpty(x) == IF x.t \in {"undef", "null"} \/ x = EmptyString THEN EmptyString ELSE x

\* Every object key of the model, in the order Array.prototype.sort gives.
KeyOrder ==
  << "action", "actor", "architecture", "artifactCount", "artifact_count",
     "artifacts", "assetIdentified",
     "authorityLevel", "bfoId", "compliance", "confidence", "contentSummary", "context",
     "councilStatus", "count", "details", "error", "finalHash",
     "flowStage", "fullAnalysisResult", "fullIntent", "fullObjectSnapshot",
     "governance", "governanceMode", "hash", "id", "initialization",
     "intentUnambiguous", "metadata", "mimeType", "mode", "name",
     "ocrSummary", "outputHash", "path", "previousHash",
     "processRisk", "processTool", "rationale", "reasoning",
     "recommendation", "referenceId", "schema", "scope", "sig", "signature",
     "signatures", "signed", "source", "sourceHash", "sourceIdentity", "sourceType",
     "status", "suggestedClassification", "syntaxValid",
     "target", "targetPath", "technicalFailure", "timestamp", "type",
     "vaultName", "version" >>

HasKey(ps, k) == \E i \in 1..Len(ps) : ps[i].k = k
Get(ps, k)    == IF HasKey(ps, k)
                 THEN ps[CHOOSE i \in 1..Len(ps) : ps[i].k = k].val
                 ELSE Undefined

\* the place of each key in that order
KeyRank == [k \in {KeyOrder[i] : i \in 1..Len(KeyOrder)} |->
              CHOOSE i \in 1..Len(KeyOrder) : KeyOrder[i] = k]

\* variant: the keys in insertion order
InsertionKeys(ps) == [i \in 1..Len(ps) |-> ps[i].k]

\* Object.keys(data).sort()
SortedKeys(ps) ==
  SortSeq([i \in 1..Len(ps) |-> ps[i].k], LAMBDA a, b : KeyRank[a] < KeyRank[b])

RECURSIVE JoinFrom(_, _)
\* the items of parts from index i on, separated by commas
JoinFrom(parts, i) ==
  IF i > Len(parts) THEN <<>>
  ELSE IF i = Len(parts) THEN parts[i]
  ELSE parts[i] \o <<",">> \o JoinFrom(parts, i + 1)

\* parts.join(','); the argument is evaluated once and then bound
Join(parts) == CHOOSE s \in {JoinFrom(p, 1) : p \in {parts}} : TRUE

\* JSON.stringify of a string
Quote(s) == <<"\"">> \o s \o <<"\"">>

\* variant: no key is left out
SkipsNothing(val) == FALSE

\* if (val === undefined) continue
Skipped(val) == val.t = "undef"

RECURSIVE canonicalize(_)
\* the body of canonicalize for a value in hand
canonicalizeValue(data) ==
  IF data.t \in {"undef", "null"} THEN <<"null">>
  ELSE IF data.t = "str" THEN Quote(data.v)
  ELSE IF data.t = "lit" THEN data.v
  ELSE IF data.t = "arr"
    THEN <<"[">> \o Join([i \in 1..Len(data.v) |-> canonicalize(data.v[i])]) \o <<"]">>
  ELSE \* kept: the sorted keys whose value is not undefined, bound once
       CHOOSE s \in
         { <<"{">> \o Join([i \in 1..Len(kept) |->
                              <<"\"", kept[i], "\"", ":">>
                                \o canonicalize(Get(data.v, kept[i]))]) \o <<"}">> :
             kept \in {SelectSeq(SortedKeys(data.v),
                                 LAMBDA k : ~Skipped(Get(data.v, k)))} } : TRUE

\* canonicalize(data); the argument is evaluated once and then bound
canonicalize(x) == CHOOSE s \in {canonicalizeValue(data) : data \in {x}} : TRUE

RECURSIVE canonicalizeThrows(_)
\* canonicalize reaches JSON.stringify of a BigInt, which throws a TypeError
canonicalizeThrows(data) ==
  IF data.t = "bigint" THEN TRUE
  ELSE IF data.t = "arr" THEN \E i \in 1..Len(data.v) : canonicalizeThrows(data.v[i])
  ELSE IF data.t = "obj" THEN \E i \in 1..Len(data.v) : canonicalizeThrows(data.v[i].val)
  ELSE FALSE

\* '0x' + hex(SHA-256(data))
sha256(data) == <<"0x">> \o data

computeHash(data) == Str(sha256(canonicalize(data)))

\* the promise of computeHash(data) rejects
computeHashRejects(data) == canonicalizeThrows(data)

\* s.substring(0, 8), one token standing for one character
substring8(s) == SubSeq(s, 1, IF Len(s) < 8 THEN Len(s) ELSE 8)

\* [...reverseLog].reverse()
Reverse(s) == [i \in 1..Len(s) |-> s[Len(s) + 1 - i]]

\* The object both processQueue and verifyLedger hash for an entry.
PayloadObj(previousHash, timestamp, actor, action, details, rationale, metadata, signature) ==
  Obj(<< KV("previousHash", previousHash), KV("timestamp", timestamp),
         KV("actor", actor), KV("action", action), KV("details", details),
         KV("rationale", OrEmpty(rationale)), KV("metadata", metadata),
         KV("signature", OrEmpty(signature)) >>)

EntryPayload(entry) ==
  PayloadObj(entry.previousHash, entry.timestamp, entry.actor, entry.action,
             entry.details, entry.rationale, entry.metadata, entry.signature)

VerifyOK == [valid |-> TRUE, errorIndex |-> -1, errorMsg |-> <<>>]

\* variant: the oldest entry may carry any previousHash
GenesisLinkUnchecked(entry) == TRUE

\* line 180: entry.previousHash !== 'GENESIS' fails the oldest entry
GenesisLinkOK(entry) == entry.previousHash = GENESIS

RECURSIVE VerifyFromLinkFirst(_, _)
\* variant: the genesis and linkage checks of an entry come before its digest
VerifyFromLinkFirst(log, i) ==
  IF i >= Len(log) THEN VerifyOK
  ELSE LET entry          == log[i + 1]
           calculatedHash == computeHash(EntryPayload(entry))
       IN  IF i = 0 /\ ~GenesisLinkOK(entry)
             THEN [valid |-> FALSE, errorIndex |-> i,
                   errorMsg |-> <<"Invalid Genesis PreviousHash: ">> \o entry.previousHash.v]
           ELSE IF i > 0 /\ entry.previousHash /= log[i].hash
             THEN [valid |-> FALSE, errorIndex |-> i,
                   errorMsg |-> <<"Chain Broken at Block ", ToString(i), ". PreviousHash ">>
                                \o substring8(entry.previousHash.v)
                                \o <<"... does not match Block ", ToString(i - 1), " Hash ">>
                                \o substring8(log[i].hash.v) \o <<"...">>]
           ELSE IF calculatedHash /= entry.hash
             THEN [valid |-> FALSE, errorIndex |-> i,
                   errorMsg |-> <<"Hash Mismatch at Block ", ToString(i), ". Stored: ">>
                                \o substring8(entry.hash.v) \o <<"..., Calc: ">>
                                \o substring8(calculatedHash.v) \o <<"...">>]
           ELSE VerifyFromLinkFirst(log, i + 1)

RECURSIVE VerifyFrom(_, _)
\* the loop of verifyLedger over the oldest-first copy, from 0-based index i
VerifyFrom(log, i) ==
  IF i >= Len(log) THEN VerifyOK
  ELSE LET entry          == log[i + 1]
           calculatedHash == computeHash(EntryPayload(entry))
       IN  IF calculatedHash /= entry.hash
             THEN [valid |-> FALSE, errorIndex |-> i,
                   errorMsg |-> <<"Hash Mismatch at Block ", ToString(i), ". Stored: ">>
                                \o substring8(entry.hash.v) \o <<"..., Calc: ">>
                                \o substring8(calculatedHash.v) \o <<"...">>]
           ELSE IF i = 0 /\ ~GenesisLinkOK(entry)
             THEN [valid |-> FALSE, errorIndex |-> i,
                   errorMsg |-> <<"Invalid Genesis PreviousHash: ">> \o entry.previousHash.v]
           ELSE IF i > 0 /\ entry.previousHash /= log[i].hash
             THEN [valid |-> FALSE, errorIndex |-> i,
                   errorMsg |-> <<"Chain Broken at Block ", ToString(i), ". PreviousHash ">>
                                \o substring8(entry.previousHash.v)
                                \o <<"... does not match Block ", ToString(i - 1), " Hash ">>
                                \o substring8(log[i].hash.v) \o <<"...">>]
           ELSE VerifyFrom(log, i + 1)

\* variant: only the newest entry is examined
verifyLedgerNewestOnly(reverseLog) ==
  IF Len(reverseLog) = 0 THEN VerifyOK
  ELSE VerifyFrom(Reverse(reverseLog), Len(reverseLog) - 1)

verifyLedger(reverseLog) ==
  IF Len(reverseLog) = 0 THEN VerifyOK ELSE VerifyFrom(Reverse(reverseLog), 0)

\* ------------------------------------------------------------ JSON storage
RECURSIVE ToJSON(_)
\* what JSON.parse(JSON.stringify(x)) gives back: keys whose value is
\* undefined are dropped from objects, undefined array items become null
ToJSONValue(x) ==
  IF x.t = "obj"
    THEN LET kept == SelectSeq(x.v, LAMBDA p : p.val.t /= "undef")
         IN  Obj([i \in 1..Len(kept) |-> KV(kept[i].k, ToJSON(kept[i].val))])
  ELSE IF x.t = "arr"
    THEN Arr([i \in 1..Len(x.v) |->
                IF x.v[i].t = "undef" THEN Null ELSE ToJSON(x.v[i])])
  ELSE x

\* ToJSONValue(y); the argument is evaluated once and then bound
ToJSON(y) == CHOOSE r \in {ToJSONValue(x) : x \in {y}} : TRUE

EntryToJSON(e) ==
  [id |-> ToJSON(e.id), timestamp |-> ToJSON(e.timestamp), actor |-> ToJSON(e.actor),
   action |-> ToJSON(e.action), details |-> ToJSON(e.details), hash |-> ToJSON(e.hash),
   previousHash |-> ToJSON(e.previousHash), rationale |-> ToJSON(e.rationale),
   metadata |-> ToJSON(e.metadata), signature |-> ToJSON(e.signature)]

\* a localStorage item: absent, or a text that JSON.parse accepts or rejects
NoItem        == [present |-> FALSE, parseable |-> FALSE, doc |-> <<>>]
BrokenText    == [present |-> TRUE, parseable |-> FALSE, doc |-> <<>>]
JSONText(doc) == [present |-> TRUE, parseable |-> TRUE, doc |-> doc]

\* variant: the ledger is stored oldest first
saveLedgerOldestFirst(log) ==
  JSONText([i \in 1..Len(log) |-> EntryToJSON(log[Len(log) + 1 - i])])

\* persistence.saveLedger: localStorage.setItem(AUDIT_LOG, JSON.stringify(log))
saveLedger(log) == JSONText([i \in 1..Len(log) |-> EntryToJSON(log[i])])

\* persistence.loadLedger: null when the item is absent or JSON.parse throws
loadLedger(item) == IF item.present /\ item.parseable THEN Arr(item.doc) ELSE Null

\* persistence.saveAssets / loadAssets: null when the item is absent or
\* JSON.parse throws
saveAssets(list) == JSONText(list)
loadAssets(item) == IF item.present /\ item.parseable THEN Arr(item.doc) ELSE Null

\* persistence.saveBFOs / loadBFOs
saveBFOs(list) == JSONText(list)
loadBFOs(item) == IF item.present /\ item.parseable THEN item.doc ELSE <<>>

\* ------------------------------------------------------- keyring & identity
\* A CryptoKey is known by the number of the crypto.subtle.generateKey call
\* that made its pair and by its usage.
CryptoKey(kid, type) == [kid |-> kid, type |-> type]

CryptoKeyPair(kid) ==
  [privateKey |-> CryptoKey(kid, "sign"), publicKey |-> CryptoKey(kid, "verify")]

\* exportKey: the JWK of a key; the private one carries d
exportKey(key) ==
  Obj(<< KV("kty", Str(<<"EC">>)), KV("crv", Str(<<"P-256">>)),
         KV("key_ops", Arr(<<Str(<<key.type>>)>>)),
         KV("x", Str(<<ToString(key.kid)>>)) >>
      \o IF key.type = "sign" THEN <<KV("d", Str(<<ToString(key.kid)>>))>> ELSE <<>>)

\* crypto.subtle.importKey("jwk", jwk, ECDSA P-256, true, [type]) rejects
importKeyThrows(jwk, type) ==
  \/ jwk.t /= "obj"
  \/ Get(jwk.v, "kty") /= Str(<<"EC">>)
  \/ Get(jwk.v, "crv") /= Str(<<"P-256">>)
  \/ Get(jwk.v, "key_ops") /= Arr(<<Str(<<type>>)>>)
  \/ Get(jwk.v, "x").t /= "str"
  \/ Len(Get(jwk.v, "x").v) /= 1
  \/ ~\E kid \in 1..MaxKeys : Get(jwk.v, "x").v[1] = ToString(kid)
  \/ (type = "sign") /= HasKey(jwk.v, "d")
  \/ (type = "sign" /\ Get(jwk.v, "d") /= Get(jwk.v, "x"))

\* importKey(jwk, type), when it does not reject
importKey(jwk, type) ==
  CryptoKey(CHOOSE kid \in 1..MaxKeys : Get(jwk.v, "x").v[1] = ToString(kid), type)

\* the item e8_fiduciary_key_v1 of localStorage
NoIdentity          == [present |-> FALSE, parseable |-> FALSE, doc |-> Undefined]
BrokenIdentity      == [present |-> TRUE, parseable |-> FALSE, doc |-> Undefined]
IdentityText(value) == [present |-> TRUE, parseable |-> TRUE, doc |-> ToJSON(value)]

\* JSON.stringify({ privateJwk, publicJwk }) of a pair
IdentityOf(keyPair) ==
  IdentityText(Obj(<< KV("privateJwk", exportKey(keyPair.privateKey)),
                      KV("publicJwk", exportKey(keyPair.publicKey)) >>))

\* const { privateJwk, publicJwk } = JSON.parse(stored), then the two
\* importKey calls, throws
RestoreThrows(stored) ==
  \/ ~stored.parseable
  \/ stored.doc.t \in {"null", "undef"}
  \/ IF stored.doc.t = "obj"
       THEN \/ importKeyThrows(Get(stored.doc.v, "privateJwk"), "sign")
            \/ importKeyThrows(Get(stored.doc.v, "publicJwk"), "verify")
       ELSE TRUE

\* variant: a stored identity is never read
NeverRestores(forceNew, stored) == FALSE

\* variant: what the try block throws leaves generateKeyPair
KeyCorruptionRethrown(forceNew, stored) ==
  ~forceNew /\ stored.present /\ RestoreThrows(stored)

\* catch (e) { console.error(...) }: nothing thrown in the try block leaves it
KeyCorruptionThrows(forceNew, stored) == FALSE

\* generateKeyPair returns at line 34
Restores(forceNew, stored) == ~forceNew /\ stored.present /\ ~RestoreThrows(stored)

\* generateKeyPair(forceNew) with the item stored and generated pairs made so
\* far: the pair returned, the item left in storage, the pairs made
generateKeyPair(forceNew, stored, generated) ==
  IF KeyCorruptionThrows(forceNew, stored)
    THEN [threw |-> TRUE, keyPair |-> CryptoKeyPair(0), stored |-> stored,
          generated |-> generated]
  ELSE IF Restores(forceNew, stored)
    THEN [threw     |-> FALSE,
          keyPair   |-> [privateKey |-> importKey(Get(stored.doc.v, "privateJwk"), "sign"),
                         publicKey  |-> importKey(Get(stored.doc.v, "publicJwk"), "verify")],
          stored    |-> stored,
          generated |-> generated]
    ELSE [threw     |-> FALSE,
          keyPair   |-> CryptoKeyPair(generated + 1),
          stored    |-> IdentityOf(CryptoKeyPair(generated + 1)),
          generated |-> generated + 1]

\* clearIdentity
clearIdentity(stored) == NoIdentity

\* --------------------------------------------------------- sign and verify
\* An ECDSA signature is modelled by what it binds: the key that made it, the
\* nonce drawn for it and the bytes signed.  No other bytes verify.
Nonces == {"k1", "k2"}

\* crypto.subtle.sign(ECDSA/SHA-256, privateKey, bytes) with nonce k
SubtleSign(privateKey, bytes, k) == <<ToString(privateKey.kid), k>> \o bytes

\* crypto.subtle.verify(ECDSA/SHA-256, publicKey, signatureBytes, bytes)
SubtleVerify(publicKey, signatureBytes, bytes) ==
  /\ Len(signatureBytes) >= 2
  /\ signatureBytes[1] = ToString(publicKey.kid)
  /\ signatureBytes[2] \in Nonces
  /\ SubSeq(signatureBytes, 3, Len(signatureBytes)) = bytes

\* new TextEncoder().encode(data): a lone surrogate becomes U+FFFD
TextEncode(data) ==
  [i \in 1..Len(data) |-> IF data[i] = "\\uD800" THEN "\\uFFFD" ELSE data[i]]

\* A base64 text is the byte tokens it carries, each standing for the
\* characters that encode it, followed by its last
\* characters: "Q==" when the bits of the last character that carry no data
\* are zero, "R==" when they are not.  "\n" is white space, "%" a character
\* outside the alphabet.
Base64Ends == {"Q==", "R==", "Q", "R"}

\* btoa(String.fromCharCode(...bytes)) of a signature
btoa(bytes) == bytes \o <<"Q==">>

\* atob(text) throws InvalidCharacterError: white space is dropped first,
\* padding is optional, the unused bits of the last character are not looked at
atobThrows(text) ==
  LET t == SelectSeq(text, LAMBDA c : c /= "\n")
  IN  \/ t = <<>>
      \/ t[Len(t)] \notin Base64Ends
      \/ \E i \in 1..(Len(t) - 1) : t[i] \in Base64Ends \cup {"%"}

\* the characters atob(text) returns, as bytes
atob(text) == SelectSeq(text, LAMBDA c : c \notin Base64Ends \cup {"\n"})

\* signData(privateKey, data), the nonce of this call being k
signData(privateKey, data, k) == btoa(SubtleSign(privateKey, TextEncode(data), k))

\* verifySignature(publicKey, signature, data): rejects, or resolves to a boolean
verifySignature(publicKey, signature, data) ==
  IF atobThrows(signature)
    THEN [threw |-> TRUE, value |-> FALSE]
    ELSE [threw |-> FALSE,
          value |-> SubtleVerify(publicKey, atob(signature), TextEncode(data))]

\* -------------------------------------------------------------- the state
VARIABLES
  systemStatus,       \* useState: BOOTING | ONBOARDING | ONLINE | HALTED
  haltReason,         \* useState: string
  bfos,               \* useState: BFOObject[], newest first
  auditLog,           \* useState: AuditEvent[], newest first
  auditQueueRef,      \* useRef: queued drafts, oldest first
  isProcessingQueue,  \* useRef: boolean
  latestHashRef,      \* useRef: chain head
  drains,             \* processQueue invocations suspended at await computeHash
  boot,               \* runBootSequence: position and locals
  callers,            \* async UI tasks in flight, each with the systemStatus
                      \* its addBFO / addAuditEvent closures captured
  verifyTimer,        \* the setTimeout(runVerification, 500) is pending
  verifying,          \* runVerification calls suspended at await verifyLedger,
                      \* each with the result for the auditLog of its closure
  hashFailed,         \* history: a computeHash of processQueue rejected
  engine,             \* BFOEngine: its useState / useRef values and its
                      \* handleAnalyze / handleCommit calls in flight
  lsLedger,           \* localStorage e8_ufos_audit_log_v1
  lsBFOs,             \* localStorage e8_ufos_bfos_v1
  lsAssets,           \* localStorage e8_ufos_assets_v1
  lsDisclaimer,       \* localStorage e8_disclaimer_accepted
  lsKey,              \* localStorage e8_fiduciary_key_v1
  nKeys,              \* key pairs crypto.subtle.generateKey has made
  keyCalls,           \* generateKeyPair invocations: position and locals
  lastCall,           \* the latest call of a function made directly, with
                      \* its arguments and what it returned
  vault,              \* Vault: its auditLog prop, its useState values and its
                      \* runCheck calls suspended at await verifyLedger
  scanner,            \* DriveScanner: its useState values, its connect timer
                      \* and its handleFileSelect call in flight
  ingest,             \* IngestionPipeline: its queue, its session artifacts and
                      \* its handleFileSelect / buildExhibitZ calls in flight
  anchorHash,         \* useState: string
  clock,              \* Date.now()
  nSubmitted, nAsync, nReloads   \* how much of each bound is used

jsVars  == <<systemStatus, haltReason, bfos, auditLog, auditQueueRef,
             isProcessingQueue, latestHashRef, drains, boot, callers, verifyTimer,
             verifying, hashFailed, engine>>
lsVars  == <<lsLedger, lsBFOs, lsAssets, lsDisclaimer>>
cntVars == <<nSubmitted, nAsync, nReloads>>
compVars == <<lsKey, nKeys, keyCalls, lastCall, vault, scanner, ingest, anchorHash>>
vars    == <<jsVars, lsVars, compVars, clock, cntVars>>

\* new Date().toISOString()
ISOString(t) == Str(<<"T", ToString(t)>>)

\* what new Date() may read: the clock does not run backwards
Now == clock..MaxClock

NoCall == [op |-> "none"]

\* useState<string>('PENDING...')
AnchorPending == Str(<<"PENDING...">>)

\* Vault as constructed: VERIFYING, nothing verified
VaultConstructed(auditLogProp) ==
  [mounted |-> TRUE, auditLog |-> auditLogProp, integrityStatus |-> "VERIFYING",
   lastVerifiedCount |-> 0, effect |-> TRUE, checks |-> <<>>, nChecks |-> 0]

\* the Vault view is not open
VaultUnmounted == [VaultConstructed(<<>>) EXCEPT !.mounted = FALSE, !.effect = FALSE]

\* DriveScanner as constructed; connecting: the systemStatus the pending
\* setTimeout callback captured; reading: the file handleFileSelect holds
ScannerConstructed ==
  [isConnected |-> FALSE, connecting |-> <<>>, scanStatus |-> "IDLE",
   scannedFile |-> <<>>, ocrResult |-> <<>>, reading |-> <<>>]

\* IngestionPipeline as constructed; intake: the handleFileSelect call in
\* flight; exhibit: the buildExhibitZ call in flight
PipelineConstructed ==
  [queue |-> <<>>, sessionArtifacts |-> <<>>, intake |-> <<>>, exhibit |-> <<>>]

BootIdle ==
  [pc |-> "idle", storedLog |-> <<>>, storedBFOs |-> <<>>, storedAssets |-> Null,
   genesisTime |-> EmptyString]

\* BFOEngine as constructed: nothing analysed, nothing signed.  analysis is
\* "none" for null, else the recommendation or "FAILURE" for technicalFailure;
\* councilSigned holds the ids of the members with signed = true;
\* userKeys is pair 0 for null.
EngineInit ==
  [governanceMode |-> "SOLE_FIDUCIARY", keyStatus |-> "GENERATING",
   flowStage |-> "INTAKE", analysis |-> "none", pendingAuthority |-> "none",
   soleSignature |-> <<>>, safetyInterlock |-> FALSE, councilSigned |-> {},
   analyzing |-> <<>>, commits |-> <<>>, outcome |-> "none", nFlows |-> 0,
   userKeys |-> CryptoKeyPair(0)]

\* ---------------------------------------------------------------- inputs
\* Drafts the UI components submit (Omit<AuditEvent, hash|previousHash|timestamp>).
ChatDraft(n) ==
  [id |-> Str(<<"CHAT-", ToString(n)>>), actor |-> Str(<<"USER">>),
   action |-> Str(<<"CHAT_INTERACTION">>), details |-> Str(<<"User Query">>),
   rationale |-> Undefined,
   metadata |-> Obj(<<KV("schema", Str(<<"1.0.0">>)), KV("bfoId", Undefined)>>),
   signature |-> Undefined]

CommitDraft(n) ==
  [id |-> Str(<<"EVT-", ToString(n)>>), actor |-> Str(<<"USER">>),
   action |-> Str(<<"SIGNATURE">>), details |-> Str(<<"BFO Committed">>),
   rationale |-> Str(<<"Sole Fiduciary Authority">>),
   metadata |-> Obj(<<KV("sourceType", Str(<<"USER_INPUT">>)), KV("schema", Str(<<"1.0.0">>))>>),
   signature |-> Str(<<"sig">>)]

\* AuditMetadata.context is Record<string, any>: a value JSON.stringify rejects
UnhashableDraft(n) ==
  [id |-> Str(<<"EVT-", ToString(n)>>), actor |-> Str(<<"INGESTION_AGENT">>),
   action |-> Str(<<"INTAKE_RECEIVED">>), details |-> Str(<<"Buffered items">>),
   rationale |-> Str(<<"Batch Pipeline Start">>),
   metadata |-> Obj(<<KV("schema", Str(<<"1.0.0">>)), KV("context", Obj(<<KV("count", BigInt)>>))>>),
   signature |-> Undefined]

\* what a UI handler of the current render may submit
Drafts(n) == {ChatDraft(n), UnhashableDraft(n)}

NewBFO(n) == [id |-> Str(<<"REC-", ToString(n)>>)]

\* ------------------------------------------------------------------- Init
\* a fresh installation: nothing stored, AppContent constructed, not mounted
Init ==
  /\ systemStatus = "BOOTING"
  /\ haltReason = <<>>
  /\ bfos = <<>>
  /\ auditLog = <<>>
  /\ auditQueueRef = <<>>
  /\ isProcessingQueue = FALSE
  /\ latestHashRef = GENESIS
  /\ drains = <<>>
  /\ boot = [BootIdle EXCEPT !.pc = "mount"]
  /\ callers = <<>>
  /\ verifyTimer = FALSE
  /\ verifying = <<>>
  /\ hashFailed = FALSE
  /\ engine = EngineInit
  /\ lsLedger = NoItem
  /\ lsBFOs = NoItem
  /\ lsAssets = NoItem
  /\ lsDisclaimer = FALSE
  /\ lsKey = NoIdentity
  /\ nKeys = 0
  /\ keyCalls = <<>>
  /\ lastCall = NoCall
  /\ vault = VaultUnmounted
  /\ anchorHash = AnchorPending
  /\ scanner = ScannerConstructed
  /\ ingest = PipelineConstructed
  /\ clock = 0
  /\ nSubmitted = 0 /\ nAsync = 0 /\ nReloads = 0

\* ---------------------------------------------------------- React effects
\* useEffect [auditLog]: if (auditLog.length > 0) persistence.saveLedger(auditLog)
SaveLedgerEffect(log) == IF Len(log) > 0 THEN saveLedger(log) ELSE lsLedger

\* useEffect [bfos]: if (bfos.length > 0) persistence.saveBFOs(bfos)
\* the assets runBootSequence sets when none are stored (their ids)
DefaultAssets == <<Str(<<"1">>), Str(<<"2">>), Str(<<"3">>), Str(<<"4">>)>>

\* useEffect [assets]: if (assets.length > 0) persistence.saveAssets(assets)
SaveAssetsEffect(list) == IF Len(list) > 0 THEN saveAssets(list) ELSE lsAssets

SaveBFOsEffect(list) == IF Len(list) > 0 THEN saveBFOs(list) ELSE lsBFOs

\* variant: the effect clears the timer and sets none
VerifyEffectSetsNoTimer(log, status) == FALSE

\* useEffect [auditLog, systemStatus]: the previous timer is cleared and a new
\* one is set unless the ledger is empty or the status is not ONLINE
VerifyEffect(log, status) == Len(log) /= 0 /\ status = "ONLINE"

\* ------------------------------------------------------------------- boot
GenesisMetadata ==
  Obj(<< KV("schema", Str(<<"1.0.0">>)),
         KV("sourceType", Str(<<"SYSTEM_GENERATED">>)),
         KV("sourceIdentity", Str(<<"ROOT_ANCHOR">>)),
         KV("processTool", Str(<<"SHA-256">>)),
         KV("context", Obj(<< KV("version", Str(<<"1.0.0">>)),
                              KV("initialization", Str(<<"TRUE">>)),
                              KV("architecture", Str(<<"E24">>)) >>)) >>)

\* variant: the hashed genesis payload has no signature key
GenesisPayloadWithoutSignature(genesisTime) ==
  Obj(<< KV("previousHash", GENESIS), KV("timestamp", genesisTime),
         KV("actor", Str(<<"SYSTEM">>)), KV("action", Str(<<"HASHING">>)),
         KV("details", Str(<<"GENESIS BLOCK">>)),
         KV("rationale", Str(<<"System Initialization">>)),
         KV("metadata", GenesisMetadata) >>)

GenesisPayload(genesisTime) ==
  PayloadObj(GENESIS, genesisTime, Str(<<"SYSTEM">>), Str(<<"HASHING">>),
             Str(<<"GENESIS BLOCK">>), Str(<<"System Initialization">>),
             GenesisMetadata, EmptyString)

GenesisEvent(genesisTime, genesisHash) ==
  [id |-> Str(<<"EVT-0000">>), timestamp |-> genesisTime, actor |-> Str(<<"SYSTEM">>),
   action |-> Str(<<"HASHING">>), details |-> Str(<<"GENESIS BLOCK">>),
   hash |-> genesisHash, previousHash |-> GENESIS,
   rationale |-> Str(<<"System Initialization">>), metadata |-> GenesisMetadata,
   signature |-> EmptyString]

\* storedLog && storedLog.length > 0
FoundLattice(storedLog) == storedLog.t = "arr" /\ Len(storedLog.v) > 0

\* runBootSequence up to its first await.  cryptoOK: window.crypto.subtle
\* exists; now: what new Date() reads in the genesis branch.
RunBootSequence(cryptoOK, now) ==
  IF ~cryptoOK
    THEN /\ systemStatus' = "HALTED"
         /\ haltReason' = <<"CRITICAL: WebCrypto API Unavailable. Application requires Secure Context.">>
         /\ boot' = [BootIdle EXCEPT !.pc = "done"]
         /\ clock' = clock
    ELSE LET storedLog  == loadLedger(lsLedger)
             storedBFOs == loadBFOs(lsBFOs)
         IN  /\ systemStatus' = "BOOTING"
             /\ haltReason' = haltReason
             /\ IF FoundLattice(storedLog)
                  THEN /\ boot' = [pc |-> "verifying", storedLog |-> storedLog.v,
                                   storedBFOs |-> storedBFOs,
                                   storedAssets |-> loadAssets(lsAssets),
                                   genesisTime |-> EmptyString]
                       /\ clock' = clock
                  ELSE /\ boot' = [pc |-> "genesis", storedLog |-> <<>>, storedBFOs |-> <<>>,
                                   storedAssets |-> loadAssets(lsAssets),
                                   genesisTime |-> ISOString(now)]
                       /\ clock' = now

\* the mount effect: no accepted disclaimer -> ONBOARDING, else boot
Mount ==
  /\ UNCHANGED <<engine, compVars>>
  /\ boot.pc = "mount"
  /\ IF ~lsDisclaimer
       THEN /\ systemStatus' = "ONBOARDING"
            /\ boot' = BootIdle
            /\ haltReason' = haltReason
            /\ clock' = clock
       ELSE \E cryptoOK \in BOOLEAN, now \in Now : RunBootSequence(cryptoOK, now)
  /\ UNCHANGED <<bfos, auditLog, auditQueueRef, isProcessingQueue, latestHashRef,
                 drains, callers, verifyTimer, verifying, hashFailed, lsVars, cntVars>>

\* SystemGate "ACCEPT & ENTER VAULT": store the acceptance, onEnter()
AcceptDisclaimer ==
  /\ UNCHANGED <<engine, compVars>>
  /\ systemStatus = "ONBOARDING"
  /\ boot.pc = "idle"
  /\ lsDisclaimer' = TRUE
  /\ \E cryptoOK \in BOOLEAN, now \in Now : RunBootSequence(cryptoOK, now)
  /\ UNCHANGED <<bfos, auditLog, auditQueueRef, isProcessingQueue, latestHashRef,
                 drains, callers, verifyTimer, verifying, hashFailed, lsLedger, lsBFOs, lsAssets,
                 cntVars>>

\* variant: the verification result is ignored
BootRestoresAnyway(verification) == TRUE

\* line 52: if (!verification.valid) throw
BootMayRestore(verification) == verification.valid

\* runBootSequence after await verifyLedger(storedLog)
BootVerified ==
  /\ UNCHANGED <<engine, compVars>>
  /\ boot.pc = "verifying"
  /\ LET verification == verifyLedger(boot.storedLog)
     IN  IF ~BootMayRestore(verification)
           THEN /\ systemStatus' = "HALTED"
                /\ haltReason' = <<"PERSISTENCE CORRUPTION: ">> \o verification.errorMsg
                /\ UNCHANGED <<auditLog, bfos, latestHashRef, lsLedger, lsBFOs, lsAssets, verifyTimer>>
           ELSE /\ auditLog' = boot.storedLog
                /\ bfos' = boot.storedBFOs
                /\ latestHashRef' = boot.storedLog[1].hash
                /\ systemStatus' = "ONLINE"
                /\ haltReason' = haltReason
                /\ lsLedger' = SaveLedgerEffect(auditLog')
                /\ lsBFOs' = SaveBFOsEffect(bfos')
                /\ lsAssets' = SaveAssetsEffect(IF boot.storedAssets.t = "arr"
                                                  THEN boot.storedAssets.v ELSE DefaultAssets)
                /\ verifyTimer' = VerifyEffect(auditLog', systemStatus')
  /\ boot' = [boot EXCEPT !.pc = "done"]
  /\ UNCHANGED <<auditQueueRef, isProcessingQueue, drains, callers, verifying,
                 hashFailed, lsDisclaimer, clock, cntVars>>

\* runBootSequence after await computeHash(genesisPayload)
BootGenesis ==
  /\ UNCHANGED <<engine, compVars>>
  /\ boot.pc = "genesis"
  /\ LET genesisHash == computeHash(GenesisPayload(boot.genesisTime))
     IN  /\ auditLog' = <<GenesisEvent(boot.genesisTime, genesisHash)>>
         /\ bfos' = <<>>
         /\ latestHashRef' = genesisHash
         /\ systemStatus' = "ONLINE"
         /\ lsLedger' = SaveLedgerEffect(auditLog')
         /\ lsBFOs' = SaveBFOsEffect(bfos')
         /\ lsAssets' = SaveAssetsEffect(DefaultAssets)
         /\ verifyTimer' = VerifyEffect(auditLog', systemStatus')
  /\ boot' = [boot EXCEPT !.pc = "done"]
  /\ UNCHANGED <<haltReason, auditQueueRef, isProcessingQueue, drains, callers, verifying,
                 hashFailed, lsDisclaimer, clock, cntVars>>

\* ----------------------------------------------------------- append queue
RemoveAt(seq, i) == SubSeq(seq, 1, i - 1) \o SubSeq(seq, i + 1, Len(seq))

\* variant: the draining flag is not consulted
MayStartDrainNoFlag(status) == status /= "HALTED"

\* processQueue line 160: if (isProcessingQueue.current || systemStatus === 'HALTED') return
\* status is the systemStatus of the render that created the closure
MayStartDrain(status) == ~isProcessingQueue /\ status /= "HALTED"

\* variant: the chain head is not read, every draft links to the sentinel
DequeuedAgainstGenesis(eventData, head, now) ==
  [eventData |-> eventData, previousHash |-> GENESIS, timestamp |-> ISOString(now)]

\* variant: the draft is stamped with the epoch, not with the clock
DequeuedAtEpoch(eventData, head, now) ==
  [eventData |-> eventData, previousHash |-> head, timestamp |-> ISOString(0)]

\* one loop iteration up to await computeHash: shift, read the head, stamp
Dequeued(eventData, head, now) ==
  [eventData |-> eventData, previousHash |-> head, timestamp |-> ISOString(now)]

DraftPayload(d) ==
  PayloadObj(d.previousHash, d.timestamp, d.eventData.actor, d.eventData.action,
             d.eventData.details, d.eventData.rationale, d.eventData.metadata,
             d.eventData.signature)

\* { ...eventData, timestamp, hash, previousHash, rationale || '', signature || '' }
FullEvent(d, newHash) ==
  [id |-> d.eventData.id, timestamp |-> d.timestamp, actor |-> d.eventData.actor,
   action |-> d.eventData.action, details |-> d.eventData.details,
   hash |-> newHash, previousHash |-> d.previousHash,
   rationale |-> OrEmpty(d.eventData.rationale), metadata |-> d.eventData.metadata,
   signature |-> OrEmpty(d.eventData.signature)]

\* variant: the entry takes the place of the newest one
PublishedOverNewest(fullEvent, prev) ==
  IF Len(prev) > 1 THEN <<fullEvent>> \o Tail(prev) ELSE <<fullEvent>> \o prev

\* variant: the entry is published at the old end of the ledger
PublishedAtOldEnd(fullEvent, prev) == prev \o <<fullEvent>>

\* setAuditLog(prev => [fullEvent, ...prev])
PublishedNewestFirst(fullEvent, prev) == <<fullEvent>> \o prev

\* auditQueueRef.current.push(event)
Enqueue(event) == Append(auditQueueRef, event)

\* variant: the draft is pushed and processQueue is not called
AddAuditEventWithoutDrain(status, event, now) ==
  IF status = "HALTED"
    THEN UNCHANGED <<auditQueueRef, isProcessingQueue, drains, clock>>
    ELSE /\ auditQueueRef' = Enqueue(event)
         /\ UNCHANGED <<isProcessingQueue, drains, clock>>

\* addAuditEvent(event) of a closure created with systemStatus = status:
\* push, then processQueue() up to its first await; now: what new Date()
\* reads when a draft is dequeued
AddAuditEvent(status, event, now) ==
  IF status = "HALTED"
    THEN UNCHANGED <<auditQueueRef, isProcessingQueue, drains, clock>>
    ELSE LET q == Enqueue(event)
         IN  IF MayStartDrain(status)
               THEN /\ isProcessingQueue' = TRUE
                    /\ auditQueueRef' = Tail(q)
                    /\ drains' = Append(drains, Dequeued(Head(q), latestHashRef, now))
                    /\ clock' = now
               ELSE /\ auditQueueRef' = q
                    /\ UNCHANGED <<isProcessingQueue, drains, clock>>

\* addBFO(newBFO) of a closure created with systemStatus = status
AddBFO(status, newBFO) == IF status = "HALTED" THEN bfos ELSE <<newBFO>> \o bfos

\* a UI handler of the current render calls addAuditEvent (children are
\* rendered only while the status is ONLINE)
SubmitEvent ==
  /\ UNCHANGED <<engine, compVars>>
  /\ systemStatus = "ONLINE"
  /\ nSubmitted < MaxSubmit
  /\ \E event \in Drafts(nSubmitted + 1), now \in Now : AddAuditEvent(systemStatus, event, now)
  /\ nSubmitted' = nSubmitted + 1
  /\ UNCHANGED <<systemStatus, haltReason, bfos, auditLog, latestHashRef, boot, callers,
                 verifyTimer, verifying, hashFailed, lsVars, nAsync, nReloads>>

\* an async UI task (processItem, commitToVault, handleCommit, handleSend)
\* starts and keeps the addBFO / addAuditEvent of the current render
CallerStart ==
  /\ UNCHANGED <<engine, compVars>>
  /\ systemStatus = "ONLINE"
  /\ nAsync < MaxAsync
  /\ callers' = Append(callers, systemStatus)
  /\ nAsync' = nAsync + 1
  /\ UNCHANGED <<systemStatus, haltReason, bfos, auditLog, auditQueueRef, isProcessingQueue,
                 latestHashRef, drains, boot, verifyTimer, verifying, hashFailed, lsVars,
                 clock, nSubmitted, nReloads>>

\* the task resumes after its awaits: addBFO(newBFO); addAuditEvent({...})
CallerCommit(i) ==
  /\ UNCHANGED <<engine, compVars>>
  /\ nSubmitted < MaxSubmit
  /\ bfos' = AddBFO(callers[i], NewBFO(nSubmitted + 1))
  /\ \E now \in Now : AddAuditEvent(callers[i], CommitDraft(nSubmitted + 1), now)
  /\ lsBFOs' = SaveBFOsEffect(bfos')
  /\ callers' = RemoveAt(callers, i)
  /\ nSubmitted' = nSubmitted + 1
  /\ UNCHANGED <<systemStatus, haltReason, auditLog, latestHashRef, boot, verifyTimer,
                 verifying, hashFailed, lsLedger, lsAssets, lsDisclaimer, nAsync, nReloads>>

\* processQueue resumes with the digest: advance the head, publish, then the
\* next loop iteration up to its await, or the finally block
DrainPublish(i) ==
  /\ UNCHANGED <<engine, compVars>>
  /\ ~computeHashRejects(DraftPayload(drains[i]))
  /\ UNCHANGED <<systemStatus, haltReason, bfos, boot, callers, verifying, hashFailed,
                 lsBFOs, lsAssets, lsDisclaimer, cntVars>>
  /\ \E d \in {drains[i]} : \E newHash \in {computeHash(DraftPayload(d))} :
      /\ latestHashRef' = newHash
      /\ auditLog' = PublishedNewestFirst(FullEvent(d, newHash), auditLog)
      /\ IF Len(auditQueueRef) > 0
           THEN /\ auditQueueRef' = Tail(auditQueueRef)
                /\ \E now \in Now :
                      /\ drains' = [drains EXCEPT
                                      ![i] = Dequeued(Head(auditQueueRef), newHash, now)]
                      /\ clock' = now
                /\ UNCHANGED isProcessingQueue
           ELSE /\ isProcessingQueue' = FALSE
                /\ drains' = RemoveAt(drains, i)
                /\ UNCHANGED <<auditQueueRef, clock>>
      /\ lsLedger' = SaveLedgerEffect(auditLog')
      /\ verifyTimer' = VerifyEffect(auditLog', systemStatus)

\* variant: a rejected digest drops the draft without halting
DrainFailSkipsItem(i) ==
  /\ UNCHANGED <<engine, compVars>>
  /\ computeHashRejects(DraftPayload(drains[i]))
  /\ isProcessingQueue' = FALSE
  /\ drains' = RemoveAt(drains, i)
  /\ hashFailed' = TRUE
  /\ UNCHANGED <<systemStatus, haltReason, verifyTimer, bfos, auditLog, auditQueueRef,
                 latestHashRef, boot, callers, verifying, lsVars, clock, cntVars>>

\* variant: the catch block puts the failed draft back at the front of the queue
DrainFailRequeues(i) ==
  /\ UNCHANGED <<engine, compVars>>
  /\ computeHashRejects(DraftPayload(drains[i]))
  /\ systemStatus' = "HALTED"
  /\ haltReason' = <<"HASHING_PIPELINE_FAILURE">>
  /\ isProcessingQueue' = FALSE
  /\ drains' = RemoveAt(drains, i)
  /\ auditQueueRef' = <<drains[i].eventData>> \o auditQueueRef
  /\ verifyTimer' = VerifyEffect(auditLog, systemStatus')
  /\ hashFailed' = TRUE
  /\ UNCHANGED <<bfos, auditLog, latestHashRef, boot, callers, verifying,
                 lsVars, clock, cntVars>>

\* await computeHash rejects: catch, then finally with hasError
DrainFail(i) ==
  /\ UNCHANGED <<engine, compVars>>
  /\ computeHashRejects(DraftPayload(drains[i]))
  /\ systemStatus' = "HALTED"
  /\ haltReason' = <<"HASHING_PIPELINE_FAILURE">>
  /\ isProcessingQueue' = FALSE
  /\ drains' = RemoveAt(drains, i)
  /\ verifyTimer' = VerifyEffect(auditLog, systemStatus')
  /\ hashFailed' = TRUE
  /\ UNCHANGED <<bfos, auditLog, auditQueueRef, latestHashRef, boot, callers, verifying,
                 lsVars, clock, cntVars>>

\* the 500 ms timer fires: runVerification up to await verifyLedger(auditLog);
\* the result is that of the ledger the closure holds
VerifyTimerFires ==
  /\ UNCHANGED <<engine, compVars>>
  /\ verifyTimer
  /\ Len(verifying) < MaxVerify
  /\ verifyTimer' = FALSE
  /\ verifying' = Append(verifying, verifyLedger(auditLog))
  /\ UNCHANGED <<systemStatus, haltReason, bfos, auditLog, auditQueueRef, isProcessingQueue,
                 latestHashRef, drains, boot, callers, hashFailed, lsVars, clock, cntVars>>

\* variant: a valid result puts the status back to ONLINE
VerificationDoneRestores(i) ==
  /\ UNCHANGED <<engine, compVars>>
  /\ verifying' = RemoveAt(verifying, i)
  /\ LET result == verifying[i]
     IN  IF ~result.valid
           THEN /\ systemStatus' = "HALTED"
                /\ haltReason' = IF result.errorMsg = <<>>
                                   THEN <<"INTEGRITY_CHECK_FAILED">> ELSE result.errorMsg
           ELSE /\ systemStatus' = "ONLINE"
                /\ UNCHANGED haltReason
  /\ verifyTimer' = VerifyEffect(auditLog, systemStatus')
  /\ UNCHANGED <<bfos, auditLog, auditQueueRef, isProcessingQueue, latestHashRef, drains,
                 boot, callers, hashFailed, lsVars, clock, cntVars>>

\* runVerification after await verifyLedger(auditLog)
VerificationDone(i) ==
  /\ UNCHANGED <<engine, compVars>>
  /\ verifying' = RemoveAt(verifying, i)
  /\ LET result == verifying[i]
     IN  IF ~result.valid
           THEN /\ systemStatus' = "HALTED"
                /\ haltReason' = IF result.errorMsg = <<>>
                                   THEN <<"INTEGRITY_CHECK_FAILED">> ELSE result.errorMsg
                /\ verifyTimer' = VerifyEffect(auditLog, systemStatus')
           ELSE UNCHANGED <<systemStatus, haltReason, verifyTimer>>
  /\ UNCHANGED <<bfos, auditLog, auditQueueRef, isProcessingQueue, latestHashRef, drains,
                 boot, callers, hashFailed, lsVars, clock, cntVars>>

\* ---------------------------------------------------------- external anchor
\* variant: the sentinel is recorded in place of the chain head
AnchorDraftOfSentinel(n, currentRoot, now) ==
  [id |-> Str(<<"ANCHOR-", ToString(n)>>), actor |-> Str(<<"SYSTEM">>),
   action |-> Str(<<"EXTERNAL_ANCHOR_PUBLISHED">>),
   details |-> Str(<<"Root Hash Committed to Public Record: ">> \o GENESIS.v),
   rationale |-> Str(<<"Non-Repudiation Checkpoint">>),
   metadata |->
     Obj(<< KV("schema", Str(<<"1.0.0">>)), KV("sourceType", Str(<<"SYSTEM_GENERATED">>)),
            KV("sourceHash", GENESIS),
            KV("processTool", Str(<<"Public_Ledger_Bridge_v1">>)),
            KV("context", Obj(<< KV("target", Str(<<"Simulated_Ethereum_Block">>)),
                                 KV("timestamp", ISOString(now)) >>)) >>),
   signature |-> Undefined]

\* the event triggerAnchor submits for the head currentRoot
AnchorDraft(n, currentRoot, now) ==
  [id |-> Str(<<"ANCHOR-", ToString(n)>>), actor |-> Str(<<"SYSTEM">>),
   action |-> Str(<<"EXTERNAL_ANCHOR_PUBLISHED">>),
   details |-> Str(<<"Root Hash Committed to Public Record: ">> \o currentRoot.v),
   rationale |-> Str(<<"Non-Repudiation Checkpoint">>),
   metadata |->
     Obj(<< KV("schema", Str(<<"1.0.0">>)), KV("sourceType", Str(<<"SYSTEM_GENERATED">>)),
            KV("sourceHash", currentRoot),
            KV("processTool", Str(<<"Public_Ledger_Bridge_v1">>)),
            KV("context", Obj(<< KV("target", Str(<<"Simulated_Ethereum_Block">>)),
                                 KV("timestamp", ISOString(now)) >>)) >>),
   signature |-> Undefined]

\* triggerAnchor(), with the systemStatus of the current render
triggerAnchor ==
  /\ lastCall' = [op |-> "triggerAnchor", status |-> systemStatus, n |-> nSubmitted]
  /\ IF systemStatus /= "ONLINE"
       THEN UNCHANGED <<auditQueueRef, isProcessingQueue, drains, clock, anchorHash, nSubmitted>>
       ELSE /\ nSubmitted < MaxSubmit
            /\ \E now \in Now :
                 AddAuditEvent(systemStatus, AnchorDraft(nSubmitted + 1, latestHashRef, now), now)
            /\ anchorHash' = latestHashRef
            /\ nSubmitted' = nSubmitted + 1
  /\ UNCHANGED <<systemStatus, haltReason, bfos, auditLog, latestHashRef, boot, callers,
                 verifyTimer, verifying, hashFailed, engine, lsVars, lsKey, nKeys, keyCalls, vault,
                 scanner, ingest, nAsync, nReloads>>

\* ------------------------------------------------------------ environment
\* window.location.reload(): every in-memory value is back at construction
PageLoad ==
  /\ systemStatus' = "BOOTING"
  /\ haltReason' = <<>>
  /\ bfos' = <<>>
  /\ auditLog' = <<>>
  /\ auditQueueRef' = <<>>
  /\ isProcessingQueue' = FALSE
  /\ latestHashRef' = GENESIS
  /\ drains' = <<>>
  /\ boot' = [BootIdle EXCEPT !.pc = "mount"]
  /\ callers' = <<>>
  /\ verifyTimer' = FALSE
  /\ verifying' = <<>>
  /\ hashFailed' = FALSE
  /\ engine' = EngineInit
  /\ anchorHash' = AnchorPending
  /\ scanner' = ScannerConstructed
  /\ ingest' = PipelineConstructed

\* variant: the stored ledger is not removed
forceRestartKeepsLedger ==
  /\ systemStatus = "HALTED"
  /\ nReloads < MaxReloads
  /\ lastCall' = [op |-> "forceRestart"]
  /\ lsDisclaimer' = FALSE
  /\ lsBFOs' = NoItem
  /\ lsAssets' = NoItem
  /\ PageLoad
  /\ nReloads' = nReloads + 1
  /\ UNCHANGED <<lsLedger, lsKey, nKeys, keyCalls, vault, clock, nSubmitted, nAsync>>

\* EMERGENCY RESET button of the halted screen: removeItem of the
\* acceptance, persistence.clearAll(), window.location.reload()
forceRestart ==
  /\ systemStatus = "HALTED"
  /\ nReloads < MaxReloads
  /\ lastCall' = [op |-> "forceRestart"]
  /\ lsDisclaimer' = FALSE
  /\ lsLedger' = NoItem
  /\ lsBFOs' = NoItem
  /\ lsAssets' = NoItem
  /\ PageLoad
  /\ nReloads' = nReloads + 1
  /\ UNCHANGED <<lsKey, nKeys, keyCalls, vault, clock, nSubmitted, nAsync>>

\* the user reloads or reopens the page
Reload ==
  /\ nReloads < MaxReloads
  /\ lastCall' = [op |-> "reload"]
  /\ PageLoad
  /\ nReloads' = nReloads + 1
  /\ UNCHANGED <<lsVars, lsKey, nKeys, keyCalls, vault, clock, nSubmitted, nAsync>>

TamperKinds == {"truncate", "details", "previousHash"}

\* the stored ledger is edited outside the application, between two sessions
Tampered(item, kind, i) ==
  IF kind = "truncate" THEN BrokenText
  ELSE IF kind = "details"
    THEN JSONText([item.doc EXCEPT ![i].details = Str(<<"tampered">>)])
  ELSE JSONText([item.doc EXCEPT ![i].previousHash = Str(<<"0x", "unrelated">>)])

\* an intact stored ledger is edited before the page is loaded
TamperStorage ==
  /\ boot.pc = "mount"
  /\ lsLedger.present /\ lsLedger.parseable
  /\ verifyLedger(lsLedger.doc).valid
  /\ \E kind \in TamperKinds, i \in 1..Len(lsLedger.doc) :
        lsLedger' = Tampered(lsLedger, kind, i)
  /\ UNCHANGED <<jsVars, lsBFOs, lsAssets, lsDisclaimer, compVars, clock, cntVars>>

Next ==
  \/ Mount
  \/ AcceptDisclaimer
  \/ BootVerified
  \/ BootGenesis
  \/ SubmitEvent
  \/ CallerStart
  \/ \E i \in 1..Len(callers) : CallerCommit(i)
  \/ \E i \in 1..Len(drains) : DrainPublish(i)
  \/ \E i \in 1..Len(drains) : DrainFail(i)
  \/ VerifyTimerFires
  \/ \E i \in 1..Len(verifying) : VerificationDone(i)
  \/ forceRestart
  \/ Reload
  \/ TamperStorage

Spec == Init /\ [][Next]_vars

\* One page load without outside interference.  An awaited computeHash
\* settles and the event loop then runs the continuation of processQueue.
DrainStep == \E i \in 1..Len(drains) : DrainPublish(i) \/ DrainFail(i)

LiveNext ==
  \/ Mount
  \/ AcceptDisclaimer
  \/ BootGenesis
  \/ SubmitEvent
  \/ CallerStart
  \/ \E i \in 1..Len(callers) : CallerCommit(i)
  \/ \E i \in 1..Len(drains) : DrainPublish(i)
  \/ \E i \in 1..Len(drains) : DrainFail(i)
  \/ VerifyTimerFires
  \/ \E i \in 1..Len(verifying) : VerificationDone(i)

LiveSpec == Init /\ [][LiveNext]_vars /\ WF_vars(DrainStep)

\* One page load with the Vault's COMMIT ROOT button and direct calls of
\* triggerAnchor.
AnchorNext ==
  \/ Mount
  \/ AcceptDisclaimer
  \/ BootGenesis
  \/ SubmitEvent
  \/ \E i \in 1..Len(drains) : DrainPublish(i)
  \/ \E i \in 1..Len(drains) : DrainFail(i)
  \/ triggerAnchor

AnchorSpec == Init /\ [][AnchorNext]_vars

\* Page loads over storage that only the application writes.
SessionsNext ==
  \/ Mount
  \/ AcceptDisclaimer
  \/ BootVerified
  \/ BootGenesis
  \/ SubmitEvent
  \/ CallerStart
  \/ \E i \in 1..Len(callers) : CallerCommit(i)
  \/ \E i \in 1..Len(drains) : DrainPublish(i)
  \/ \E i \in 1..Len(drains) : DrainFail(i)
  \/ VerifyTimerFires
  \/ \E i \in 1..Len(verifying) : VerificationDone(i)
  \/ forceRestart
  \/ Reload

SessionsSpec == Init /\ [][SessionsNext]_vars

\* ------------------------------------------- verifyLedger on stored ledgers
\* The ledgers the application stores: the genesis entry, then drained drafts.
GenesisLedger(t) ==
  <<GenesisEvent(ISOString(t), computeHash(GenesisPayload(ISOString(t))))>>

\* the ledger after one more draft is dequeued, hashed and published
Extended(log, eventData, t) ==
  LET d == Dequeued(eventData, log[1].hash, t)
  IN  PublishedNewestFirst(FullEvent(d, computeHash(DraftPayload(d))), log)

RECURSIVE LedgersOfLen(_)
LedgersOfLen(n) ==
  IF n = 1 THEN {GenesisLedger(0)}
  ELSE {Extended(log, eventData, 0) :
          log \in LedgersOfLen(n - 1), eventData \in {ChatDraft(n - 1), CommitDraft(n - 1)}}

StoredLedgers == {saveLedger(log) : log \in UNION {LedgersOfLen(n) : n \in 1..MaxChain}}

\* the fields of a stored AuditEvent
EntryFields ==
  {"id", "timestamp", "actor", "action", "details", "hash", "previousHash",
   "rationale", "metadata", "signature"}

\* what an edit puts into a field
Replacements(field) ==
  IF field \in {"hash", "previousHash"} THEN {Str(<<"0x", "unrelated">>)}
  ELSE IF field = "metadata" THEN {Obj(<<KV("schema", Str(<<"9.9.9">>))>>)}
  ELSE IF field \in {"rationale", "signature"} THEN {Str(<<"tampered">>), Null}
  ELSE {Str(<<"tampered">>)}

\* a returning user whose storage holds one of these ledgers
VerifyInit ==
  /\ systemStatus = "BOOTING"
  /\ haltReason = <<>>
  /\ bfos = <<>>
  /\ auditLog = <<>>
  /\ auditQueueRef = <<>>
  /\ isProcessingQueue = FALSE
  /\ latestHashRef = GENESIS
  /\ drains = <<>>
  /\ boot = [BootIdle EXCEPT !.pc = "mount"]
  /\ callers = <<>>
  /\ verifyTimer = FALSE
  /\ verifying = <<>>
  /\ hashFailed = FALSE
  /\ engine = EngineInit
  /\ lsLedger \in StoredLedgers
  /\ lsBFOs = NoItem
  /\ lsAssets = saveAssets(DefaultAssets)
  /\ lsDisclaimer = TRUE
  /\ lsKey = NoIdentity
  /\ nKeys = 0
  /\ keyCalls = <<>>
  /\ lastCall = NoCall
  /\ vault = VaultUnmounted
  /\ anchorHash = AnchorPending
  /\ scanner = ScannerConstructed
  /\ ingest = PipelineConstructed
  /\ clock = 0
  /\ nSubmitted = 0 /\ nAsync = 0 /\ nReloads = 0

\* one field of one entry of an intact stored ledger is given another value,
\* nothing else is recomputed
EditStoredEntry ==
  /\ boot.pc = "mount"
  /\ lsLedger \in StoredLedgers
  /\ \E i \in 1..Len(lsLedger.doc), field \in EntryFields :
       \E value \in Replacements(field) :
          /\ value /= lsLedger.doc[i][field]
          /\ lsLedger' = JSONText([lsLedger.doc EXCEPT ![i][field] = value])
  /\ UNCHANGED <<jsVars, lsBFOs, lsAssets, lsDisclaimer, compVars, clock, cntVars>>

\* the editor replaces the hash of the entry whose digest no longer matches
\* by the digest of its present payload
RehashStoredEntry ==
  /\ boot.pc = "mount"
  /\ LET result == verifyLedger(lsLedger.doc)
         i      == Len(lsLedger.doc) - result.errorIndex
     IN  /\ ~result.valid
         /\ result.errorMsg[1] = "Hash Mismatch at Block "
         /\ lsLedger' = JSONText([lsLedger.doc EXCEPT
                                    ![i].hash = computeHash(EntryPayload(lsLedger.doc[i]))])
  /\ UNCHANGED <<jsVars, lsBFOs, lsAssets, lsDisclaimer, compVars, clock, cntVars>>

VerifyNext ==
  \/ EditStoredEntry
  \/ RehashStoredEntry
  \/ Mount
  \/ BootVerified

VerifySpec == VerifyInit /\ [][VerifyNext]_vars

\* ------------------------------------------------------ truncated ledgers
\* The stored ledger is replaced by a part of itself before the page loads.
\* variant: the ledger without its k oldest entries
WithoutOldestInstead(reverseLog, k) == SubSeq(reverseLog, 1, Len(reverseLog) - k)

\* the ledger (newest first) without its k newest entries
WithoutNewest(reverseLog, k) == SubSeq(reverseLog, k + 1, Len(reverseLog))

\* the ledger (newest first) without its j oldest entries
WithoutOldest(reverseLog, j) == SubSeq(reverseLog, 1, Len(reverseLog) - j)

\* localStorage e8_ufos_audit_log_v1 is put back to an earlier ledger
DropNewestStored ==
  /\ boot.pc = "mount"
  /\ lastCall = NoCall
  /\ \E k \in 1..Len(lsLedger.doc) :
       /\ lsLedger' = JSONText(WithoutNewest(lsLedger.doc, k))
       /\ lastCall' = [op |-> "dropNewest", k |-> k, of |-> lsLedger.doc]
  /\ UNCHANGED <<jsVars, lsBFOs, lsAssets, lsDisclaimer, lsKey, nKeys, keyCalls, vault, scanner,
                 ingest, anchorHash, clock, cntVars>>

\* localStorage e8_ufos_audit_log_v1 loses its oldest entries, not all of them
DropOldestStored ==
  /\ boot.pc = "mount"
  /\ lastCall = NoCall
  /\ \E j \in 1..(Len(lsLedger.doc) - 1) :
       /\ lsLedger' = JSONText(WithoutOldest(lsLedger.doc, j))
       /\ lastCall' = [op |-> "dropOldest", k |-> j, of |-> lsLedger.doc]
  /\ UNCHANGED <<jsVars, lsBFOs, lsAssets, lsDisclaimer, lsKey, nKeys, keyCalls, vault, scanner,
                 ingest, anchorHash, clock, cntVars>>

RollbackNext ==
  \/ DropNewestStored
  \/ DropOldestStored
  \/ Mount
  \/ BootVerified
  \/ BootGenesis
  \/ SubmitEvent
  \/ \E i \in 1..Len(drains) : DrainPublish(i)
  \/ \E i \in 1..Len(drains) : DrainFail(i)

RollbackSpec == VerifyInit /\ [][RollbackNext]_vars

\* ------------------------------------------------------------ BFO engine
\* The signing flow of BFOEngine: handleAnalyze, initiateSigning, the
\* signature inputs, handleCommit and resetFlow.  The component is rendered
\* while the status is ONLINE; its handlers reach addBFO and addAuditEvent
\* through the props of the render that created them.
Members == 1..3

MemberName(id) ==
  IF id = 1 THEN "Chair (You)" ELSE IF id = 2 THEN "Member A" ELSE "Member B"

\* the initials typed for a member, upper-cased
Initials(id) == <<"M", ToString(id)>>

\* councilSignatures, with signed = true for the ids in signed
CouncilStatus(signed) ==
  Arr([id \in Members |->
         Obj(<< KV("id", Str(<<ToString(id)>>)), KV("name", Str(<<MemberName(id)>>)),
                KV("signed", Lit(IF id \in signed THEN "true" ELSE "false")),
                KV("sig", IF id \in signed THEN Str(Initials(id)) ELSE EmptyString) >>)])

\* keyFingerprint: '...' until initKeys has finished
Fingerprint(keyStatus) == IF keyStatus = "READY" THEN "1A2B3C4D" ELSE "..."

\* what the handlers of the present render see of App and of the component
Closure ==
  [status |-> systemStatus, governanceMode |-> engine.governanceMode,
   flowStage |-> engine.flowStage, councilSigned |-> engine.councilSigned,
   keyStatus |-> engine.keyStatus]

\* the event addEntry hands to addAuditEvent, from a handler with closure c
EntryDraft(n, c, action, details, rationale, context, signature, authorityLevel) ==
  [id |-> Str(<<"EVT-", ToString(n)>>),
   actor |-> Str(<<IF action = "ANALYSIS" THEN "AI_CO_FIDUCIARY"
                   ELSE IF c.governanceMode = "JOINT_COUNCIL" /\ action = "RATIFICATION"
                     THEN "COUNCIL_MAJORITY" ELSE "USER">>),
   action |-> Str(<<action>>), details |-> Str(details), rationale |-> Str(<<rationale>>),
   metadata |->
     Obj(<< KV("schema", Str(<<"1.0.0">>)), KV("sourceType", Str(<<"USER_INPUT">>)),
            KV("sourceIdentity", Str(<<"KEY-", Fingerprint(c.keyStatus)>>)),
            KV("governanceMode", Str(<<c.governanceMode>>)),
            KV("authorityLevel", authorityLevel),
            KV("context",
               Obj(context \o
                   << KV("flowStage", Str(<<c.flowStage>>)), KV("referenceId", Null),
                      KV("councilStatus",
                         IF c.governanceMode = "JOINT_COUNCIL"
                           THEN CouncilStatus(c.councilSigned) ELSE Str(<<"N/A">>)) >>)) >>),
   signature |-> signature]

\* addEntry(...) of a handler with closure c
addEntry(c, draft) ==
  /\ \E now \in Now : AddAuditEvent(c.status, draft, now)
  /\ nSubmitted' = nSubmitted + 1

\* initKeys, the mount effect: generateKeyPair(false), the fingerprint, READY
initKeys ==
  /\ systemStatus = "ONLINE"
  /\ engine.keyStatus = "GENERATING"
  /\ Restores(FALSE, lsKey) \/ nKeys < MaxKeys
  /\ \E r \in {generateKeyPair(FALSE, lsKey, nKeys)} :
       /\ engine' = IF r.threw THEN engine
                    ELSE [engine EXCEPT !.userKeys = r.keyPair, !.keyStatus = "READY"]
       /\ lsKey' = r.stored
       /\ nKeys' = r.generated
  /\ UNCHANGED <<keyCalls, lastCall, vault, scanner, ingest, anchorHash>>
  /\ UNCHANGED <<systemStatus, haltReason, bfos, auditLog, auditQueueRef, isProcessingQueue,
                 latestHashRef, drains, boot, callers, verifyTimer, verifying, hashFailed,
                 lsVars, clock, cntVars>>

\* the SOLE / COUNCIL buttons, enabled in the INTAKE stage
setGovernanceMode ==
  /\ systemStatus = "ONLINE"
  /\ engine.flowStage = "INTAKE"
  /\ \E mode \in {"SOLE_FIDUCIARY", "JOINT_COUNCIL"} :
        /\ mode /= engine.governanceMode
        /\ engine' = [engine EXCEPT !.governanceMode = mode]
  /\ UNCHANGED <<systemStatus, haltReason, bfos, auditLog, auditQueueRef, isProcessingQueue,
                 latestHashRef, drains, boot, callers, verifyTimer, verifying, hashFailed,
                 lsVars, compVars, clock, cntVars>>

\* handleAnalyze up to await analyzeFiduciaryIntent(intentInput)
handleAnalyze ==
  /\ systemStatus = "ONLINE"
  /\ engine.flowStage = "INTAKE"
  /\ engine.nFlows < MaxFlows
  /\ addEntry(Closure,
              EntryDraft(nSubmitted + 1, Closure, "INTAKE", <<"Intent captured">>,
                         "User Initiation", <<KV("fullIntent", Str(<<"intent">>))>>,
                         Undefined, Undefined))
  /\ engine' = [engine EXCEPT !.flowStage = "ANALYSIS", !.analyzing = <<Closure>>,
                              !.nFlows = @ + 1]
  /\ UNCHANGED <<systemStatus, haltReason, bfos, auditLog, latestHashRef, boot, callers,
                 verifyTimer, verifying, hashFailed, lsVars, compVars, nAsync, nReloads>>

\* what the analysis service answers: a compliant APPROVE, a non-compliant
\* REQUIRE_AUDIT, or the technicalFailure object
AnalysisResults == {"APPROVE", "REQUIRE_AUDIT", "FAILURE"}

AnalysisContext(result) ==
  IF result = "FAILURE"
    THEN << KV("error", Str(<<"GenAI Malfunction">>)),
            KV("fullAnalysisResult",
               Obj(<< KV("recommendation", Str(<<"REQUIRE_AUDIT">>)),
                      KV("technicalFailure", Lit("true")) >>)) >>
    ELSE << KV("compliance",
               Obj(<< KV("syntaxValid", Lit(IF result = "APPROVE" THEN "true" ELSE "false")),
                      KV("assetIdentified", Lit("true")),
                      KV("intentUnambiguous", Lit("true")) >>)),
            KV("processRisk", Str(<<"LOW">>)),
            KV("suggestedClassification", Str(<<"RESOLUTION">>)),
            KV("reasoning", Str(<<"reasoning">>)) >>

\* handleAnalyze after the await: the second entry, setAnalysis, DECISION
handleAnalyzeResumes ==
  /\ engine.analyzing /= <<>>
  /\ \E result \in AnalysisResults :
       /\ addEntry(engine.analyzing[1],
                   IF result = "FAILURE"
                     THEN EntryDraft(nSubmitted + 1, engine.analyzing[1], "SYSTEM_HALT",
                                     <<"Critical Failure in Analysis Engine. Workflow Suspended.">>,
                                     "Safety Protocol Triggered", AnalysisContext(result),
                                     Undefined, Undefined)
                     ELSE EntryDraft(nSubmitted + 1, engine.analyzing[1], "ANALYSIS",
                                     <<"Compliance: ", IF result = "APPROVE" THEN "3" ELSE "2",
                                       "/3 // Risk: ", "LOW">>,
                                     "Automated Gatekeeper Assessment", AnalysisContext(result),
                                     Undefined, Undefined))
       /\ engine' = [engine EXCEPT !.analysis = result, !.flowStage = "DECISION",
                                   !.analyzing = <<>>]
  /\ UNCHANGED <<systemStatus, haltReason, bfos, auditLog, latestHashRef, boot, callers,
                 verifyTimer, verifying, hashFailed, lsVars, compVars, nAsync, nReloads>>

\* initiateSigning(override): PROCEED needs a compliant analysis, FORCE
\* OVERRIDE does not; neither is offered after a technical failure
initiateSigning ==
  /\ systemStatus = "ONLINE"
  /\ engine.flowStage = "DECISION"
  /\ engine.analysis \in {"APPROVE", "REQUIRE_AUDIT"}
  /\ \E override \in BOOLEAN :
       /\ override \/ engine.analysis = "APPROVE"
       /\ engine' = [engine EXCEPT
                       !.pendingAuthority =
                          IF override THEN "OVERRIDE"
                          ELSE IF engine.analysis = "APPROVE" THEN "JOINT_CONSENSUS"
                          ELSE "HUMAN_SOLE",
                       !.flowStage = "SIGNING", !.soleSignature = <<>>,
                       !.safetyInterlock = FALSE, !.councilSigned = {}]
  /\ UNCHANGED <<systemStatus, haltReason, bfos, auditLog, auditQueueRef, isProcessingQueue,
                 latestHashRef, drains, boot, callers, verifyTimer, verifying, hashFailed,
                 lsVars, compVars, clock, cntVars>>

\* what may stand in the RATIFICATION INITIALS input: nothing, a blank, initials
SoleInputs == {<<>>, <<" ">>, <<"A", "B">>}

\* the sole-mode input, rendered in the SIGNING stage of sole mode
setSoleSignature ==
  /\ systemStatus = "ONLINE"
  /\ engine.flowStage = "SIGNING"
  /\ engine.governanceMode = "SOLE_FIDUCIARY"
  /\ \E value \in SoleInputs :
        /\ value /= engine.soleSignature
        /\ engine' = [engine EXCEPT !.soleSignature = value]
  /\ UNCHANGED <<systemStatus, haltReason, bfos, auditLog, auditQueueRef, isProcessingQueue,
                 latestHashRef, drains, boot, callers, verifyTimer, verifying, hashFailed,
                 lsVars, compVars, clock, cntVars>>

\* the safety interlock checkbox, rendered in the SIGNING stage of sole mode
setSafetyInterlock ==
  /\ systemStatus = "ONLINE"
  /\ engine.flowStage = "SIGNING"
  /\ engine.governanceMode = "SOLE_FIDUCIARY"
  /\ engine' = [engine EXCEPT !.safetyInterlock = ~@]
  /\ UNCHANGED <<systemStatus, haltReason, bfos, auditLog, auditQueueRef, isProcessingQueue,
                 latestHashRef, drains, boot, callers, verifyTimer, verifying, hashFailed,
                 lsVars, compVars, clock, cntVars>>

\* Enter in the initials input of a council member who has not signed
signForCouncilMember ==
  /\ systemStatus = "ONLINE"
  /\ engine.flowStage = "SIGNING"
  /\ engine.governanceMode = "JOINT_COUNCIL"
  /\ \E id \in Members \ engine.councilSigned :
        engine' = [engine EXCEPT !.councilSigned = @ \cup {id}]
  /\ UNCHANGED <<systemStatus, haltReason, bfos, auditLog, auditQueueRef, isProcessingQueue,
                 latestHashRef, drains, boot, callers, verifyTimer, verifying, hashFailed,
                 lsVars, compVars, clock, cntVars>>

\* the disabled attribute of the two buttons that call handleCommit
CommitButtonEnabled ==
  IF engine.governanceMode = "SOLE_FIDUCIARY"
    THEN engine.soleSignature /= <<>> /\ engine.keyStatus = "READY" /\ engine.safetyInterlock
    ELSE Cardinality(engine.councilSigned) >= 2 /\ engine.keyStatus = "READY"

\* !s.trim()
Blank(sig) == \A i \in 1..Len(sig) : sig[i] = " "

\* handleCommit gets past its returns of lines 146-157
CommitAccepted(e) ==
  /\ e.analysis /= "none"
  /\ e.pendingAuthority /= "none"
  /\ e.userKeys /= CryptoKeyPair(0)
  /\ e.safetyInterlock
  /\ IF e.governanceMode = "SOLE_FIDUCIARY"
       THEN ~Blank(e.soleSignature)
       ELSE Cardinality(e.councilSigned) >= 2

\* finalSignatures
FinalSignatures(e) ==
  IF e.governanceMode = "SOLE_FIDUCIARY"
    THEN <<Str(e.soleSignature)>>
    ELSE LET signed == SelectSeq(<<1, 2, 3>>, LAMBDA id : id \in e.councilSigned)
         IN  [k \in 1..Len(signed) |-> Str(Initials(signed[k]))]

\* bfoContent; n stands for Date.now() and the random number of the id
BfoContent(e, n, now) ==
  << KV("id", Str(<<"BFO-", ToString(n)>>)),
     KV("timestamp", Str(<<" ", ToString(now)>>)),
     KV("type", Str(<<"RESOLUTION">>)),
     KV("status", Str(<<"IMMUTABLE">>)),
     KV("contentSummary", Str(<<"intent">>)),
     KV("authorityLevel", Str(<<e.pendingAuthority>>)),
     KV("governance", Str(<<e.governanceMode>>)),
     KV("signatures", Arr(FinalSignatures(e))),
     KV("referenceId", Undefined) >>

\* a click on an enabled commit button: handleCommit up to its awaits
\* (computeHash of the content, then signData), or to one of its returns;
\* maxClicks bounds the clicks of one behaviour
handleCommitWithin(maxClicks) ==
  /\ systemStatus = "ONLINE"
  /\ engine.flowStage = "SIGNING"
  /\ CommitButtonEnabled
  /\ nAsync < maxClicks
  /\ nAsync' = nAsync + 1
  /\ IF ~CommitAccepted(engine)
       THEN /\ engine' = [engine EXCEPT !.outcome = "rejected"]
            /\ clock' = clock
       ELSE \E now \in Now :
              /\ engine' = [engine EXCEPT
                              !.commits = Append(@, [closure |-> Closure,
                                                     bfoContent |-> BfoContent(engine, nAsync + 1, now),
                                                     authority |-> engine.pendingAuthority]),
                              !.outcome = "signing"]
              /\ clock' = now
  /\ UNCHANGED <<systemStatus, haltReason, bfos, auditLog, auditQueueRef, isProcessingQueue,
                 latestHashRef, drains, boot, callers, verifyTimer, verifying, hashFailed,
                 lsVars, compVars, nSubmitted, nReloads>>

handleCommit == handleCommitWithin(MaxAsync)

\* handleCommit after signData(userKeys.current.privateKey, contentHash)
\* resolved: addBFO, addEntry, COMMITTED
handleCommitSigned(i) ==
  /\ \E k \in {engine.commits[i]} : \E contentHash \in {computeHash(Obj(k.bfoContent))} :
       \E newBFO \in {Obj(k.bfoContent \o <<KV("hash", contentHash)>>)} :
        \E nonce \in Nonces :
         \E digitalSignature \in {signData(engine.userKeys.privateKey, contentHash.v, nonce)} :
         /\ bfos' = AddBFO(k.closure.status, newBFO)
         /\ lsBFOs' = SaveBFOsEffect(bfos')
         /\ addEntry(k.closure,
                     EntryDraft(nSubmitted + 1, k.closure,
                                IF k.authority = "OVERRIDE" THEN "OVERRIDE" ELSE "APPROVAL",
                                <<"Committed to Vault. Authority: ", k.authority>>,
                                "Final Execution (Digitally Signed)",
                                << KV("bfoId", Get(k.bfoContent, "id")),
                                   KV("finalHash", contentHash),
                                   KV("fullObjectSnapshot", newBFO) >>,
                                Str(digitalSignature), Str(<<k.authority>>)))
  /\ engine' = [engine EXCEPT !.flowStage = "COMMITTED", !.commits = RemoveAt(@, i),
                              !.outcome = "committed"]
  /\ UNCHANGED <<systemStatus, haltReason, auditLog, latestHashRef, boot, callers,
                 verifyTimer, verifying, hashFailed, lsLedger, lsAssets, lsDisclaimer, compVars, nAsync, nReloads>>

\* variant: a failed signature still moves the flow to COMMITTED
SignFailureCommits(e, i) ==
  [e EXCEPT !.commits = RemoveAt(@, i), !.outcome = "signFailed", !.flowStage = "COMMITTED"]

\* catch (e) { console.error("Signing failed", e); return; }
SignFailure(e, i) == [e EXCEPT !.commits = RemoveAt(@, i), !.outcome = "signFailed"]

\* handleCommit after signData rejected
handleCommitSignFailed(i) ==
  /\ engine' = SignFailure(engine, i)
  /\ UNCHANGED <<systemStatus, haltReason, bfos, auditLog, auditQueueRef, isProcessingQueue,
                 latestHashRef, drains, boot, callers, verifyTimer, verifying, hashFailed,
                 lsVars, compVars, clock, cntVars>>

\* resetFlow, the button of the COMMITTED stage
resetFlow ==
  /\ systemStatus = "ONLINE"
  /\ engine.flowStage = "COMMITTED"
  /\ engine' = [engine EXCEPT !.flowStage = "INTAKE", !.analysis = "none",
                              !.soleSignature = <<>>, !.pendingAuthority = "none"]
  /\ UNCHANGED <<systemStatus, haltReason, bfos, auditLog, auditQueueRef, isProcessingQueue,
                 latestHashRef, drains, boot, callers, verifyTimer, verifying, hashFailed,
                 lsVars, compVars, clock, cntVars>>

\* One page load with the BFO engine open.
EngineNext ==
  \/ Mount
  \/ AcceptDisclaimer
  \/ BootGenesis
  \/ \E i \in 1..Len(drains) : DrainPublish(i)
  \/ initKeys
  \/ setGovernanceMode
  \/ handleAnalyze
  \/ handleAnalyzeResumes
  \/ initiateSigning
  \/ setSoleSignature
  \/ setSafetyInterlock
  \/ signForCouncilMember
  \/ handleCommit
  \/ \E i \in 1..Len(engine.commits) : handleCommitSigned(i)
  \/ \E i \in 1..Len(engine.commits) : handleCommitSignFailed(i)
  \/ resetFlow

EngineSpec == Init /\ [][EngineNext]_vars

\* One page load with the BFO engine open, where the commit button may be
\* clicked again while an earlier handleCommit has not resumed.
ClickNext ==
  \/ Mount
  \/ AcceptDisclaimer
  \/ BootGenesis
  \/ \E i \in 1..Len(drains) : DrainPublish(i)
  \/ initKeys
  \/ setGovernanceMode
  \/ handleAnalyze
  \/ handleAnalyzeResumes
  \/ initiateSigning
  \/ setSoleSignature
  \/ setSafetyInterlock
  \/ signForCouncilMember
  \/ handleCommitWithin(MaxClicks)
  \/ \E i \in 1..Len(engine.commits) : handleCommitSigned(i)
  \/ \E i \in 1..Len(engine.commits) : handleCommitSignFailed(i)
  \/ resetFlow

ClickSpec == Init /\ [][ClickNext]_vars

\* ------------------------------------------------- wipe and reinitialize
\* The application with the BFO engine open, which keeps an identity.
RestartNext ==
  \/ Mount
  \/ AcceptDisclaimer
  \/ BootVerified
  \/ BootGenesis
  \/ SubmitEvent
  \/ \E i \in 1..Len(drains) : DrainPublish(i)
  \/ \E i \in 1..Len(drains) : DrainFail(i)
  \/ initKeys
  \/ forceRestart
  \/ Reload

RestartSpec == Init /\ [][RestartNext]_vars

\* ---------------------------------------------------------- drive scanner
\* the contents of the files a user may select
Files == {<<"pdf1">>, <<"pdf2">>}

\* the event of handleConnect
DriveConnectDraft(n) ==
  [id |-> Str(<<"DRV-", ToString(n)>>), actor |-> Str(<<"SYSTEM">>),
   action |-> Str(<<"DRIVE_IMPORT">>),
   details |-> Str(<<"Google Drive API Connection Established">>),
   rationale |-> Str(<<"External Asset Ingestion">>),
   metadata |->
     Obj(<< KV("schema", Str(<<"1.0.0">>)), KV("sourceType", Str(<<"GOOGLE_DRIVE">>)),
            KV("sourceIdentity", Str(<<"AUTH_TOKEN">>)),
            KV("context", Obj(<< KV("scope", Str(<<"drive.readonly">>)) >>)) >>),
   signature |-> Undefined]

\* handleConnect: the click sets the timer
handleConnect ==
  /\ systemStatus = "ONLINE"
  /\ ~scanner.isConnected
  /\ scanner.connecting = <<>>
  /\ scanner' = [scanner EXCEPT !.connecting = <<systemStatus>>]
  /\ UNCHANGED <<jsVars, lsVars, lsKey, nKeys, keyCalls, lastCall, vault, ingest, anchorHash, clock,
                 cntVars>>

\* the callback of setTimeout(..., 1500): setIsConnected(true), addAuditEvent
handleConnectTimeout ==
  /\ scanner.connecting /= <<>>
  /\ nSubmitted < MaxIngest
  /\ scanner' = [scanner EXCEPT !.connecting = <<>>, !.isConnected = TRUE]
  /\ \E now \in Now :
       AddAuditEvent(scanner.connecting[1], DriveConnectDraft(nSubmitted + 1), now)
  /\ nSubmitted' = nSubmitted + 1
  /\ UNCHANGED <<systemStatus, haltReason, bfos, auditLog, latestHashRef, boot, callers,
                 verifyTimer, verifying, hashFailed, engine, lsVars, lsKey, nKeys, keyCalls, lastCall,
                 vault, ingest, anchorHash, nAsync, nReloads>>

\* handleFileSelect of the scanner up to await file.arrayBuffer()
ScannerHandleFileSelect ==
  /\ systemStatus = "ONLINE"
  /\ scanner.isConnected
  /\ scanner.reading = <<>>
  /\ \E file \in Files :
       scanner' = [scanner EXCEPT !.scanStatus = "SCANNING", !.scannedFile = <<>>,
                                  !.ocrResult = <<>>, !.reading = <<file>>]
  /\ UNCHANGED <<jsVars, lsVars, lsKey, nKeys, keyCalls, lastCall, vault, ingest, anchorHash, clock,
                 cntVars>>

\* ... after await sha256(buffer): setScannedFile, ANALYZING, up to await performOCR
ScannerFileHashed ==
  /\ scanner.reading /= <<>>
  /\ scanner.scanStatus = "SCANNING"
  /\ scanner' = [scanner EXCEPT
                   !.scannedFile = <<[name |-> Str(<<"name-">> \o scanner.reading[1]),
                                      hash |-> Str(sha256(scanner.reading[1]))]>>,
                   !.scanStatus = "ANALYZING"]
  /\ UNCHANGED <<jsVars, lsVars, lsKey, nKeys, keyCalls, lastCall, vault, ingest, anchorHash, clock,
                 cntVars>>

\* ... after await performOCR: setOcrResult, COMPLETE
ScannerFileAnalyzed ==
  /\ scanner.reading /= <<>>
  /\ scanner.scanStatus = "ANALYZING"
  /\ scanner' = [scanner EXCEPT !.ocrResult = <<Str(<<"summary">>)>>,
                                !.scanStatus = "COMPLETE", !.reading = <<>>]
  /\ UNCHANGED <<jsVars, lsVars, lsKey, nKeys, keyCalls, lastCall, vault, ingest, anchorHash, clock,
                 cntVars>>

\* newBFO of commitToVault; n stands for the random number of the id
DriveBFO(n, scannedFile, ocrResult, now) ==
  Obj(<< KV("id", Str(<<"BFO-DRV-", ToString(n)>>)),
         KV("hash", scannedFile.hash),
         KV("timestamp", ISOString(now)),
         KV("type", Str(<<"DIGITAL_ASSET">>)),
         KV("status", Str(<<"IMMUTABLE">>)),
         KV("contentSummary",
            Str(<<"DRIVE IMPORT: ">> \o scannedFile.name.v \o <<" // ">> \o ocrResult.v)),
         KV("authorityLevel", Str(<<"AI_RECOMMENDED">>)),
         KV("governance", Str(<<"SOLE_FIDUCIARY">>)),
         KV("signatures", Arr(<<Str(<<"DRIVE_CONNECT_BRIDGE">>)>>)),
         KV("referenceId", Str(<<"GOOGLE_DRIVE_ROOT">>)) >>)

\* variant: the event does not name the commitment object
DriveCommitDraftWithoutId(n, scannedFile, ocrResult, newBFO) ==
  [id |-> Str(<<"EVT-", ToString(n)>>), actor |-> Str(<<"USER">>),
   action |-> Str(<<"HASHING">>),
   details |-> Str(<<"Drive File Committed: ">> \o scannedFile.name.v),
   rationale |-> Str(<<"Ingestion to Fiduciary Vault">>),
   metadata |->
     Obj(<< KV("schema", Str(<<"1.0.0">>)), KV("sourceType", Str(<<"GOOGLE_DRIVE">>)),
            KV("sourceIdentity", scannedFile.name),
            KV("sourceHash", scannedFile.hash),
            KV("outputHash", scannedFile.hash),
            KV("context", Obj(<< KV("mimeType", Str(<<"application/pdf">>)),
                                 KV("ocrSummary", ocrResult) >>)) >>),
   signature |-> Undefined]

\* the event of commitToVault
DriveCommitDraft(n, scannedFile, ocrResult, newBFO) ==
  [id |-> Str(<<"EVT-", ToString(n)>>), actor |-> Str(<<"USER">>),
   action |-> Str(<<"HASHING">>),
   details |-> Str(<<"Drive File Committed: ">> \o scannedFile.name.v),
   rationale |-> Str(<<"Ingestion to Fiduciary Vault">>),
   metadata |->
     Obj(<< KV("schema", Str(<<"1.0.0">>)), KV("sourceType", Str(<<"GOOGLE_DRIVE">>)),
            KV("sourceIdentity", scannedFile.name),
            KV("sourceHash", scannedFile.hash),
            KV("outputHash", scannedFile.hash),
            KV("bfoId", Get(newBFO.v, "id")),
            KV("context", Obj(<< KV("mimeType", Str(<<"application/pdf">>)),
                                 KV("ocrSummary", ocrResult) >>)) >>),
   signature |-> Undefined]

\* commitToVault, with the addBFO / addAuditEvent of the current render
commitToVault ==
  /\ systemStatus = "ONLINE"
  /\ scanner.scannedFile /= <<>>
  /\ scanner.ocrResult /= <<>>
  /\ nSubmitted < MaxIngest
  /\ \E now \in Now :
       \E newBFO \in {DriveBFO(nSubmitted + 1, scanner.scannedFile[1],
                               scanner.ocrResult[1], now)} :
         /\ bfos' = AddBFO(systemStatus, newBFO)
         /\ AddAuditEvent(systemStatus,
                          DriveCommitDraft(nSubmitted + 1, scanner.scannedFile[1],
                                           scanner.ocrResult[1], newBFO), now)
  /\ lsBFOs' = SaveBFOsEffect(bfos')
  /\ scanner' = [scanner EXCEPT !.scannedFile = <<>>, !.ocrResult = <<>>,
                                !.scanStatus = "IDLE"]
  /\ nSubmitted' = nSubmitted + 1
  /\ UNCHANGED <<systemStatus, haltReason, auditLog, latestHashRef, boot, callers,
                 verifyTimer, verifying, hashFailed, engine, lsLedger, lsAssets, lsDisclaimer, lsKey,
                 nKeys, keyCalls, lastCall, vault, ingest, anchorHash, nAsync, nReloads>>

\* ----------------------------------------------------- ingestion pipeline
\* the FileLists of one selection (the input accepts several files)
FileLists == UNION {[1..n -> Files] : n \in 1..MaxFiles}

\* the event of handleFileSelect
IntakeDraft(n, count) ==
  [id |-> Str(<<"EVT-", ToString(n)>>), actor |-> Str(<<"INGESTION_AGENT">>),
   action |-> Str(<<"INTAKE_RECEIVED">>),
   details |-> Str(<<"Buffered ", ToString(count), " items for Parallel Ingestion">>),
   rationale |-> Str(<<"Batch Pipeline Start">>),
   metadata |->
     Obj(<< KV("schema", Str(<<"1.0.0">>)), KV("sourceType", Str(<<"USER_UPLOAD">>)),
            KV("context", Obj(<< KV("count", Lit(ToString(count))),
                                 KV("mode", Str(<<"PARALLEL">>)) >>)) >>),
   signature |-> Undefined]

\* newItem of handleFileSelect
NewItem(file) ==
  [name |-> Str(<<"name-">> \o file), status |-> "QUEUED",
   originalHash |-> Str(sha256(file)), closure |-> <<>>]

\* handleFileSelect of the pipeline up to its first await
PipelineHandleFileSelect ==
  /\ systemStatus = "ONLINE"
  /\ ingest.intake = <<>>
  /\ \E files \in FileLists :
       ingest' = [ingest EXCEPT !.intake = <<[files |-> files, status |-> systemStatus]>>]
  /\ UNCHANGED <<jsVars, lsVars, lsKey, nKeys, keyCalls, lastCall, vault, scanner, anchorHash, clock,
                 cntVars>>

\* ... after the hashes: setQueue(prev => [...prev, ...newItems]), addAuditEvent
PipelineFilesHashed ==
  /\ ingest.intake /= <<>>
  /\ nSubmitted < MaxIngest
  /\ \E call \in {ingest.intake[1]} :
       /\ ingest' = [ingest EXCEPT
                       !.queue = @ \o [i \in 1..Len(call.files) |-> NewItem(call.files[i])],
                       !.intake = <<>>]
       /\ \E now \in Now :
            AddAuditEvent(call.status, IntakeDraft(nSubmitted + 1, Len(call.files)), now)
  /\ nSubmitted' = nSubmitted + 1
  /\ UNCHANGED <<systemStatus, haltReason, bfos, auditLog, latestHashRef, boot, callers,
                 verifyTimer, verifying, hashFailed, engine, lsVars, lsKey, nKeys, keyCalls, lastCall,
                 vault, scanner, anchorHash, nAsync, nReloads>>

\* useEffect [queue, processItem]: every QUEUED item becomes HASHING and
\* processItem(item) starts with the addBFO / addAuditEvent of this render
ProcessingTrigger ==
  /\ \E i \in 1..Len(ingest.queue) : ingest.queue[i].status = "QUEUED"
  /\ ingest' = [ingest EXCEPT
                  !.queue = [i \in 1..Len(@) |->
                               IF @[i].status = "QUEUED"
                                 THEN [@[i] EXCEPT !.status = "HASHING",
                                                   !.closure = <<systemStatus>>]
                                 ELSE @[i]]]
  /\ UNCHANGED <<jsVars, lsVars, lsKey, nKeys, keyCalls, lastCall, vault, scanner, anchorHash, clock,
                 cntVars>>

\* newBFO of processItem; n stands for Date.now() and the random number
IngestBFO(n, item, now) ==
  Obj(<< KV("id", Str(<<"REC-", ToString(n)>>)),
         KV("hash", item.originalHash),
         KV("timestamp", ISOString(now)),
         KV("type", Str(<<"DIGITAL_ASSET">>)),
         KV("status", Str(<<"IMMUTABLE">>)),
         KV("contentSummary", Str(<<"AUTO-INGEST: ">> \o item.name.v)),
         KV("authorityLevel", Str(<<"AI_RECOMMENDED">>)),
         KV("governance", Str(<<"SOLE_FIDUCIARY">>)),
         KV("signatures", Arr(<<Str(<<"AGENT_PIPELINE_V1">>)>>)),
         KV("referenceId", Str(<<"VAULT_ROOT">>)),
         KV("path", Str(<<"/vault/">>)) >>)

\* the event of processItem
AutoCommitDraft(n, item, newBFO) ==
  [id |-> Str(<<"EVT-", ToString(n)>>), actor |-> Str(<<"INGESTION_AGENT">>),
   action |-> Str(<<"AUTO_COMMIT">>),
   details |-> Str(<<"Auto-Ingest: ">> \o item.name.v),
   rationale |-> Str(<<"Batch Pipeline Execution">>),
   metadata |->
     Obj(<< KV("schema", Str(<<"1.0.0">>)),
            KV("sourceHash", item.originalHash),
            KV("processTool", Str(<<"Gemini 3 Flash">>)),
            KV("targetPath", Str(<<"/vault/">>)),
            KV("bfoId", Get(newBFO.v, "id")),
            KV("context", Obj(<< KV("confidence", Str(<<"HIGH">>)),
                                 KV("mode", Str(<<"AUTO_RUN">>)) >>)) >>),
   signature |-> Undefined]

\* processItem(item) after its awaits (OCR, classification, the 600 ms
\* pause): addBFO, addAuditEvent, COMPLETE, the session artifact
processItem(i) ==
  /\ ingest.queue[i].status = "HASHING"
  /\ ingest.queue[i].closure /= <<>>
  /\ nSubmitted < MaxIngest
  /\ \E item \in {ingest.queue[i]} : \E now \in Now :
       \E newBFO \in {IngestBFO(nSubmitted + 1, item, now)} :
         /\ bfos' = AddBFO(item.closure[1], newBFO)
         /\ AddAuditEvent(item.closure[1], AutoCommitDraft(nSubmitted + 1, item, newBFO), now)
         /\ ingest' = [ingest EXCEPT
                         !.queue[i] = [item EXCEPT !.status = "COMPLETE", !.closure = <<>>],
                         !.sessionArtifacts = Append(@, item)]
  /\ lsBFOs' = SaveBFOsEffect(bfos')
  /\ nSubmitted' = nSubmitted + 1
  /\ UNCHANGED <<systemStatus, haltReason, auditLog, latestHashRef, boot, callers,
                 verifyTimer, verifying, hashFailed, engine, lsLedger, lsAssets, lsDisclaimer, lsKey,
                 nKeys, keyCalls, lastCall, vault, scanner, anchorHash, nAsync, nReloads>>

\* processItem(item) when performOCR or classifyDocument rejects: the catch
\* block logs, the item keeps the status it had
processItemFails(i) ==
  /\ ingest.queue[i].status = "HASHING"
  /\ ingest.queue[i].closure /= <<>>
  /\ ingest' = [ingest EXCEPT !.queue[i].status = "OCR", !.queue[i].closure = <<>>]
  /\ UNCHANGED <<jsVars, lsVars, lsKey, nKeys, keyCalls, lastCall, vault, scanner, anchorHash, clock,
                 cntVars>>

\* manifest of buildExhibitZ
ExhibitZManifest(sessionArtifacts, now) ==
  Obj(<< KV("schema", Str(<<"EXHIBIT_Z_V1">>)),
         KV("timestamp", ISOString(now)),
         KV("artifactCount", Lit(ToString(Len(sessionArtifacts)))),
         KV("artifacts",
            Arr([i \in 1..Len(sessionArtifacts) |->
                   Obj(<< KV("source", sessionArtifacts[i].name),
                          KV("vaultName", sessionArtifacts[i].name),
                          KV("hash", sessionArtifacts[i].originalHash),
                          KV("path", Str(<<"/vault/">>)) >>)])) >>)

\* exhibitBFO of buildExhibitZ; n stands for Date.now()
ExhibitBFO(n, manifestHash, count, now) ==
  Obj(<< KV("id", Str(<<"EXZ-", ToString(n)>>)),
         KV("hash", manifestHash),
         KV("timestamp", ISOString(now)),
         KV("type", Str(<<"CHAINED_RECORD">>)),
         KV("status", Str(<<"IMMUTABLE">>)),
         KV("contentSummary",
            Str(<<"EXHIBIT Z: ", ToString(count), " Artifacts (Crypto-Bundled)">>)),
         KV("authorityLevel", Str(<<"AI_RECOMMENDED">>)),
         KV("governance", Str(<<"SOLE_FIDUCIARY">>)),
         KV("signatures", Arr(<<Str(<<"SYSTEM_AGENT_EXZ">>)>>)),
         KV("referenceId", Str(<<"SESSION_BUNDLE_ROOT">>)) >>)

\* the event of buildExhibitZ
ExhibitDraft(n, manifestHash, count, exhibitBFO) ==
  [id |-> Str(<<"EVT-", ToString(n)>>), actor |-> Str(<<"INGESTION_AGENT">>),
   action |-> Str(<<"EXHIBIT_Z_BUILT">>),
   details |-> Str(<<"Exhibit Z Manifest Locked: ">> \o manifestHash.v),
   rationale |-> Str(<<"Cryptographic Bundle Finalization">>),
   metadata |->
     Obj(<< KV("schema", Str(<<"1.0.0">>)), KV("sourceType", Str(<<"SYSTEM_GENERATED">>)),
            KV("sourceHash", manifestHash),
            KV("outputHash", manifestHash),
            KV("bfoId", Get(exhibitBFO.v, "id")),
            KV("context", Obj(<< KV("artifact_count", Lit(ToString(count))) >>)) >>),
   signature |-> Undefined]

\* buildExhibitZ up to await sha256(manifestString); the button is disabled
\* while there is no session artifact
buildExhibitZ ==
  /\ systemStatus = "ONLINE"
  /\ ingest.sessionArtifacts /= <<>>
  /\ ingest.exhibit = <<>>
  /\ \E now \in Now :
       /\ ingest' = [ingest EXCEPT
                       !.exhibit = <<[manifest |-> ExhibitZManifest(ingest.sessionArtifacts, now),
                                      count |-> Len(ingest.sessionArtifacts),
                                      status |-> systemStatus]>>]
       /\ clock' = now
  /\ UNCHANGED <<jsVars, lsVars, lsKey, nKeys, keyCalls, lastCall, vault, scanner, anchorHash, cntVars>>

\* ... after the manifest hash: addBFO, addAuditEvent, setSessionArtifacts([])
buildExhibitZHashed ==
  /\ ingest.exhibit /= <<>>
  /\ nSubmitted < MaxIngest
  /\ \E call \in {ingest.exhibit[1]} : \E now \in Now :
       \E manifestHash \in {Str(sha256(canonicalize(call.manifest)))} :
         \E exhibitBFO \in {ExhibitBFO(nSubmitted + 1, manifestHash, call.count, now)} :
           /\ bfos' = AddBFO(call.status, exhibitBFO)
           /\ AddAuditEvent(call.status,
                            ExhibitDraft(nSubmitted + 1, manifestHash, call.count, exhibitBFO),
                            now)
  /\ ingest' = [ingest EXCEPT !.sessionArtifacts = <<>>, !.exhibit = <<>>]
  /\ lsBFOs' = SaveBFOsEffect(bfos')
  /\ nSubmitted' = nSubmitted + 1
  /\ UNCHANGED <<systemStatus, haltReason, auditLog, latestHashRef, boot, callers,
                 verifyTimer, verifying, hashFailed, engine, lsLedger, lsAssets, lsDisclaimer, lsKey,
                 nKeys, keyCalls, lastCall, vault, scanner, anchorHash, nAsync, nReloads>>

\* One page load with the drive scanner and the ingestion pipeline.
StoreNext ==
  \/ Mount
  \/ AcceptDisclaimer
  \/ BootGenesis
  \/ \E i \in 1..Len(drains) : DrainPublish(i)
  \/ handleConnect
  \/ handleConnectTimeout
  \/ ScannerHandleFileSelect
  \/ ScannerFileHashed
  \/ ScannerFileAnalyzed
  \/ commitToVault
  \/ PipelineHandleFileSelect
  \/ PipelineFilesHashed
  \/ ProcessingTrigger
  \/ \E i \in 1..Len(ingest.queue) : processItem(i)
  \/ \E i \in 1..Len(ingest.queue) : processItemFails(i)
  \/ buildExhibitZ
  \/ buildExhibitZHashed

StoreSpec == Init /\ [][StoreNext]_vars

\* ------------------------------------------------------ commitment sites
\* One page load with the three views that add commitment objects.  App
\* renders one view at a time, so a view is used while the other two are as
\* constructed.
EngineOpen   == scanner = ScannerConstructed /\ ingest = PipelineConstructed
ScannerOpen  == engine = EngineInit /\ ingest = PipelineConstructed
PipelineOpen == engine = EngineInit /\ scanner = ScannerConstructed

CommitNext ==
  \/ Mount
  \/ AcceptDisclaimer
  \/ BootGenesis
  \/ \E i \in 1..Len(drains) : DrainPublish(i)
  \/ EngineOpen /\ initKeys
  \/ EngineOpen /\ handleAnalyze
  \/ EngineOpen /\ handleAnalyzeResumes
  \/ EngineOpen /\ initiateSigning
  \/ EngineOpen /\ setSoleSignature
  \/ EngineOpen /\ setSafetyInterlock
  \/ EngineOpen /\ handleCommit
  \/ EngineOpen /\ \E i \in 1..Len(engine.commits) : handleCommitSigned(i)
  \/ ScannerOpen /\ handleConnect
  \/ ScannerOpen /\ handleConnectTimeout
  \/ ScannerOpen /\ ScannerHandleFileSelect
  \/ ScannerOpen /\ ScannerFileHashed
  \/ ScannerOpen /\ ScannerFileAnalyzed
  \/ ScannerOpen /\ commitToVault
  \/ PipelineOpen /\ PipelineHandleFileSelect
  \/ PipelineOpen /\ PipelineFilesHashed
  \/ PipelineOpen /\ ProcessingTrigger
  \/ PipelineOpen /\ \E i \in 1..Len(ingest.queue) : processItem(i)
  \/ PipelineOpen /\ buildExhibitZ
  \/ PipelineOpen /\ buildExhibitZHashed

CommitSpec == Init /\ [][CommitNext]_vars /\ WF_vars(DrainStep)

\* --------------------------------------------------- identity life cycle
\* The identity across sessions: the item a session may find in storage, the
\* BFO engine's initKeys, direct calls of generateKeyPair and clearIdentity.
DamagedJwk(key) == Obj(<<KV("kty", Str(<<"EC">>)), KV("x", Str(<<ToString(key.kid)>>))>>)

CorruptIdentities ==
  { BrokenIdentity, IdentityText(Null), IdentityText(Obj(<<>>)),
    IdentityText(Obj(<< KV("privateJwk", DamagedJwk(CryptoKeyPair(1).privateKey)),
                        KV("publicJwk", exportKey(CryptoKeyPair(1).publicKey)) >>)),
    IdentityText(Obj(<< KV("privateJwk", exportKey(CryptoKeyPair(1).publicKey)),
                        KV("publicJwk", exportKey(CryptoKeyPair(1).privateKey)) >>)),
    IdentityText(Obj(<< KV("privateJwk", exportKey(CryptoKeyPair(1).privateKey)) >>)) }

StoredIdentities == {NoIdentity, IdentityOf(CryptoKeyPair(1))} \cup CorruptIdentities

\* a browser that has run the application before: pair 1 was made then
KeyInit ==
  /\ systemStatus = "BOOTING"
  /\ haltReason = <<>>
  /\ bfos = <<>>
  /\ auditLog = <<>>
  /\ auditQueueRef = <<>>
  /\ isProcessingQueue = FALSE
  /\ latestHashRef = GENESIS
  /\ drains = <<>>
  /\ boot = [BootIdle EXCEPT !.pc = "mount"]
  /\ callers = <<>>
  /\ verifyTimer = FALSE
  /\ verifying = <<>>
  /\ hashFailed = FALSE
  /\ engine = EngineInit
  /\ lsLedger = NoItem
  /\ lsBFOs = NoItem
  /\ lsAssets = NoItem
  /\ lsDisclaimer = TRUE
  /\ lsKey \in StoredIdentities
  /\ nKeys = 1
  /\ keyCalls = <<>>
  /\ lastCall = NoCall
  /\ vault = VaultUnmounted
  /\ anchorHash = AnchorPending
  /\ scanner = ScannerConstructed
  /\ ingest = PipelineConstructed
  /\ clock = 0
  /\ nSubmitted = 0 /\ nAsync = 0 /\ nReloads = 0

\* generateKeyPair(forceNew) called directly
CallGenerateKeyPair ==
  \E forceNew \in BOOLEAN :
    /\ Restores(forceNew, lsKey) \/ nKeys < MaxKeys
    /\ \E r \in {generateKeyPair(forceNew, lsKey, nKeys)} :
         /\ lastCall' = [op |-> "generateKeyPair", forceNew |-> forceNew,
                         found |-> lsKey, threw |-> r.threw, keyPair |-> r.keyPair]
         /\ lsKey' = r.stored
         /\ nKeys' = r.generated
    /\ UNCHANGED <<jsVars, lsVars, keyCalls, vault, scanner, ingest, anchorHash, clock, cntVars>>

\* clearIdentity() called directly
CallClearIdentity ==
  /\ lsKey.present
  /\ lsKey' = clearIdentity(lsKey)
  /\ lastCall' = [op |-> "clearIdentity"]
  /\ UNCHANGED <<jsVars, lsVars, nKeys, keyCalls, vault, scanner, ingest, anchorHash, clock, cntVars>>

\* the stored item is damaged outside the application
DamageIdentity ==
  /\ lsKey.present
  /\ lsKey' \in CorruptIdentities \ {lsKey}
  /\ UNCHANGED <<jsVars, lsVars, nKeys, keyCalls, lastCall, vault, scanner, ingest, anchorHash, clock, cntVars>>

KeyNext ==
  \/ Mount
  \/ BootGenesis
  \/ initKeys
  \/ Reload
  \/ CallGenerateKeyPair
  \/ CallClearIdentity
  \/ DamageIdentity

KeySpec == KeyInit /\ [][KeyNext]_vars

\* ------------------------------------------- overlapping generateKeyPair
\* generateKeyPair(false) step by step, as initKeys calls it: each await is
\* a point where another call may run.  A call is a record of its position
\* (importing, generating, exporting, done) and its local keyPair.
\* the BFO engine mounts (the view is opened, or opened again): the call up
\* to its first await: the item is read; a stored identity that can be
\* restored is imported, else crypto.subtle.generateKey is awaited
KeyCallStarts ==
  /\ systemStatus = "ONLINE"
  /\ Len(keyCalls) < MaxCalls
  /\ keyCalls' = Append(keyCalls,
                        IF Restores(FALSE, lsKey)
                          THEN [pc |-> "importing",
                                keyPair |-> [privateKey |-> importKey(Get(lsKey.doc.v, "privateJwk"), "sign"),
                                             publicKey  |-> importKey(Get(lsKey.doc.v, "publicJwk"), "verify")]]
                          ELSE [pc |-> "generating", keyPair |-> CryptoKeyPair(0)])
  /\ UNCHANGED <<jsVars, lsVars, lsKey, nKeys, lastCall, vault, scanner, ingest, anchorHash,
                 clock, cntVars>>

\* both importKey calls resolved: return { privateKey, publicKey }
KeyCallImported(i) ==
  /\ keyCalls[i].pc = "importing"
  /\ keyCalls' = [keyCalls EXCEPT ![i].pc = "done"]
  /\ UNCHANGED <<jsVars, lsVars, lsKey, nKeys, lastCall, vault, scanner, ingest, anchorHash,
                 clock, cntVars>>

\* crypto.subtle.generateKey resolved: the call goes on to exportKey
KeyCallGenerated(i) ==
  /\ keyCalls[i].pc = "generating"
  /\ nKeys < MaxKeys
  /\ keyCalls' = [keyCalls EXCEPT ![i] = [pc |-> "exporting",
                                          keyPair |-> CryptoKeyPair(nKeys + 1)]]
  /\ nKeys' = nKeys + 1
  /\ UNCHANGED <<jsVars, lsVars, lsKey, lastCall, vault, scanner, ingest, anchorHash,
                 clock, cntVars>>

\* both exportKey calls resolved: localStorage.setItem, return keyPair
KeyCallPersists(i) ==
  /\ keyCalls[i].pc = "exporting"
  /\ lsKey' = IdentityOf(keyCalls[i].keyPair)
  /\ keyCalls' = [keyCalls EXCEPT ![i].pc = "done"]
  /\ UNCHANGED <<jsVars, lsVars, nKeys, lastCall, vault, scanner, ingest, anchorHash,
                 clock, cntVars>>

OverlapNext ==
  \/ Mount
  \/ BootGenesis
  \/ KeyCallStarts
  \/ \E i \in 1..Len(keyCalls) : KeyCallImported(i)
  \/ \E i \in 1..Len(keyCalls) : KeyCallGenerated(i)
  \/ \E i \in 1..Len(keyCalls) : KeyCallPersists(i)

OverlapSpec == KeyInit /\ [][OverlapNext]_vars

\* ------------------------------------------------------- sign and verify
\* signData and verifySignature called directly: a digest is signed, then a
\* signature text is verified against a digest under a public key.
Digests == {computeHash(Str(<<"a">>)).v, computeHash(Str(<<"b">>)).v}

\* a signature text handed to verifySignature in place of signature
Replaced(signature) ==
  { signature,
    SubSeq(signature, 1, Len(signature) - 1) \o <<"R==">>,
    SubSeq(signature, 1, Len(signature) - 1) \o <<"Q">>,
    <<"\n">> \o signature,
    SubSeq(signature, 1, Len(signature) - 1) \o <<"%", "Q==">>,
    SubSeq(signature, 1, Len(signature) - 2) \o <<"Q==">> }

CallSignData ==
  /\ \E kid \in 1..MaxKeys, data \in Digests, k \in Nonces :
       lastCall' = [op |-> "signData", privateKey |-> CryptoKeyPair(kid).privateKey,
                    data |-> data,
                    signature |-> signData(CryptoKeyPair(kid).privateKey, data, k)]
  /\ UNCHANGED <<jsVars, lsVars, lsKey, nKeys, keyCalls, vault, scanner, ingest, anchorHash, clock, cntVars>>

\* verifySignature on what signData returned, or with one argument replaced
CallVerifySignature ==
  /\ lastCall.op = "signData"
  /\ \E kid \in 1..MaxKeys, data \in Digests, signature \in Replaced(lastCall.signature) :
       lastCall' = [op |-> "verifySignature", signed |-> lastCall,
                    publicKey |-> CryptoKeyPair(kid).publicKey,
                    signature |-> signature, data |-> data,
                    result |-> verifySignature(CryptoKeyPair(kid).publicKey, signature, data)]
  /\ UNCHANGED <<jsVars, lsVars, lsKey, nKeys, keyCalls, vault, scanner, ingest, anchorHash, clock, cntVars>>

SignNext == CallSignData \/ CallVerifySignature

SignSpec == Init /\ [][SignNext]_vars

\* ------------------------------------------------------------ canonicalize
\* canonicalize called directly on two values: primitives, arrays of them,
\* records over the keys id and name in either insertion order, and records
\* and arrays that hold such records and arrays.
Leaves == {Lit("1"), Null, Undefined}

\* the records over id and name with values from S, in both insertion orders
RecordsOver(S) ==
  {Obj(<<>>)}
    \cup {Obj(<<KV(k, x)>>) : k \in {"id", "name"}, x \in S}
    \cup {Obj(<<KV("id", x), KV("name", y)>>) : x \in S, y \in S}
    \cup {Obj(<<KV("name", y), KV("id", x)>>) : x \in S, y \in S}

\* the arrays of two values from S
PairsOver(S) == {Arr(<<x, y>>) : x \in S, y \in S}

FlatRecords == RecordsOver(Leaves)
FlatArrays  == PairsOver(Leaves)

\* values nested one level deeper: a record inside a record or an array
InnerRecords ==
  {Obj(<<KV("id", x), KV("name", y)>>) : x \in {Lit("1"), Undefined}, y \in {Null}}
    \cup {Obj(<<KV("name", y), KV("id", x)>>) : x \in {Lit("1"), Undefined}, y \in {Null}}
    \cup {Obj(<<>>), Obj(<<KV("name", Null)>>)}

CanonValues ==
  Leaves \cup FlatRecords \cup FlatArrays
    \cup RecordsOver(InnerRecords) \cup PairsOver(InnerRecords)

KeysOf(x) == {x.v[i].k : i \in 1..Len(x.v)}

RECURSIVE SameRecord(_, _)
\* x and y hold the same key/value pairs, at every depth
SameRecord(x, y) ==
  IF x.t /= y.t THEN FALSE
  ELSE IF x.t = "obj"
    THEN /\ KeysOf(x) = KeysOf(y)
         /\ \A k \in KeysOf(x) : SameRecord(Get(x.v, k), Get(y.v, k))
  ELSE IF x.t = "arr"
    THEN /\ Len(x.v) = Len(y.v)
         /\ \A i \in 1..Len(x.v) : SameRecord(x.v[i], y.v[i])
  ELSE x = y

\* y is the array x with its two elements exchanged, and they are not the same
Exchanged(x, y) ==
  /\ x.t = "arr" /\ y.t = "arr"
  /\ Len(x.v) = 2 /\ Len(y.v) = 2
  /\ SameRecord(y.v[1], x.v[2]) /\ SameRecord(y.v[2], x.v[1])
  /\ ~SameRecord(x.v[1], x.v[2])

\* y is the record x with one more key
WithKey(x, k, y) ==
  /\ x.t = "obj" /\ y.t = "obj"
  /\ k \notin KeysOf(x)
  /\ KeysOf(y) = KeysOf(x) \cup {k}
  /\ \A j \in KeysOf(x) : SameRecord(Get(x.v, j), Get(y.v, j))

\* the values worth comparing with x
Counterparts(x) ==
  {y \in CanonValues :
     \/ SameRecord(x, y)
     \/ Exchanged(x, y)
     \/ \E k \in {"id", "name"} : WithKey(x, k, y)}

CallCanonicalize ==
  /\ lastCall.op = "none"
  /\ \E data \in CanonValues : \E other \in Counterparts(data) :
       lastCall' = [op |-> "canonicalize", data |-> data, other |-> other,
                    json |-> canonicalize(data), otherJson |-> canonicalize(other)]
  /\ UNCHANGED <<jsVars, lsVars, lsKey, nKeys, keyCalls, vault, scanner, ingest, anchorHash, clock, cntVars>>

CanonNext == CallCanonicalize

CanonSpec == Init /\ [][CanonNext]_vars

\* ------------------------------------------------------------------ Vault
\* The Vault view rendered with a ledger as its auditLog prop: the effect of
\* lines 46-64 runs after every render in which auditLog, lastVerifiedCount
\* or integrityStatus changed.
TamperedLedger(log) ==
  [log EXCEPT ![Len(log)].details = Str(<<"tampered">>)]

VaultLedgers ==
  {<<>>} \cup UNION {LedgersOfLen(n) \cup {TamperedLedger(log) : log \in LedgersOfLen(n)} :
                       n \in 1..2}

VaultInit ==
  /\ systemStatus = "BOOTING"
  /\ haltReason = <<>>
  /\ bfos = <<>>
  /\ auditLog = <<>>
  /\ auditQueueRef = <<>>
  /\ isProcessingQueue = FALSE
  /\ latestHashRef = GENESIS
  /\ drains = <<>>
  /\ boot = [BootIdle EXCEPT !.pc = "mount"]
  /\ callers = <<>>
  /\ verifyTimer = FALSE
  /\ verifying = <<>>
  /\ hashFailed = FALSE
  /\ engine = EngineInit
  /\ lsLedger = NoItem
  /\ lsBFOs = NoItem
  /\ lsAssets = NoItem
  /\ lsDisclaimer = FALSE
  /\ lsKey = NoIdentity
  /\ nKeys = 0
  /\ keyCalls = <<>>
  /\ lastCall = NoCall
  /\ \E log \in VaultLedgers : vault = VaultConstructed(log)
  /\ anchorHash = AnchorPending
  /\ scanner = ScannerConstructed
  /\ ingest = PipelineConstructed
  /\ clock = 0
  /\ nSubmitted = 0 /\ nAsync = 0 /\ nReloads = 0

\* the effect: runCheck up to one of its returns or to await verifyLedger
runCheck ==
  /\ vault.mounted
  /\ vault.effect
  /\ IF Len(vault.auditLog) = 0
       THEN vault' = [vault EXCEPT !.integrityStatus = "SECURE",
                                   !.effect = (vault.integrityStatus /= "SECURE")]
     ELSE IF Len(vault.auditLog) = vault.lastVerifiedCount /\ vault.integrityStatus = "SECURE"
       THEN vault' = [vault EXCEPT !.effect = FALSE]
     ELSE /\ vault.nChecks < MaxChecks
          /\ vault' = [vault EXCEPT !.integrityStatus = "VERIFYING",
                                    !.effect = (vault.integrityStatus /= "VERIFYING"),
                                    !.checks = Append(@, vault.auditLog),
                                    !.nChecks = @ + 1]
  /\ UNCHANGED <<jsVars, lsVars, lsKey, nKeys, keyCalls, lastCall, scanner, ingest, anchorHash, clock, cntVars>>

\* runCheck after await verifyLedger(auditLog), for the ledger of its render
runCheckResumes(i) ==
  /\ \E log \in {vault.checks[i]} : \E result \in {verifyLedger(log)} :
       vault' =
         IF result.valid
           THEN [vault EXCEPT !.integrityStatus = "SECURE",
                              !.lastVerifiedCount = Len(log),
                              !.effect = \/ @
                                         \/ vault.integrityStatus /= "SECURE"
                                         \/ vault.lastVerifiedCount /= Len(log),
                              !.checks = RemoveAt(@, i)]
           ELSE [vault EXCEPT !.integrityStatus = "COMPROMISED",
                              !.effect = @ \/ vault.integrityStatus /= "COMPROMISED",
                              !.checks = RemoveAt(@, i)]
  /\ UNCHANGED <<jsVars, lsVars, lsKey, nKeys, keyCalls, lastCall, scanner, ingest, anchorHash, clock, cntVars>>

\* the parent renders the Vault with a ledger one entry longer
VaultRerendered ==
  /\ vault.mounted
  /\ Len(vault.auditLog) \in 1..2
  /\ \E eventData \in {ChatDraft(Len(vault.auditLog))} :
       vault' = [vault EXCEPT !.auditLog = Extended(@, eventData, 0), !.effect = TRUE]
  /\ UNCHANGED <<jsVars, lsVars, lsKey, nKeys, keyCalls, lastCall, scanner, ingest, anchorHash, clock, cntVars>>

VaultNext ==
  \/ runCheck
  \/ \E i \in 1..Len(vault.checks) : runCheckResumes(i)
  \/ VaultRerendered

VaultSpec == VaultInit /\ [][VaultNext]_vars

\* ------------------------------------------------- integrity check timer
\* The effect of lines 216..227 takes whatever ledger the render holds: the
\* ledgers the application publishes, and the same ledgers with a field of
\* the oldest entry altered in memory.
MemoryLedgers ==
  UNION {LedgersOfLen(n) \cup {TamperedLedger(log) : log \in LedgersOfLen(n)} : n \in 1..2}

\* a booted page after the render that brought such a ledger: its effects
\* have run (the ledger is saved, the 500 ms timer is set)
PeriodicInit ==
  /\ systemStatus = "ONLINE"
  /\ haltReason = <<>>
  /\ bfos = <<>>
  /\ auditLog \in MemoryLedgers
  /\ auditQueueRef = <<>>
  /\ isProcessingQueue = FALSE
  /\ latestHashRef = auditLog[1].hash
  /\ drains = <<>>
  /\ boot = [BootIdle EXCEPT !.pc = "done"]
  /\ callers = <<>>
  /\ verifyTimer = VerifyEffect(auditLog, systemStatus)
  /\ verifying = <<>>
  /\ hashFailed = FALSE
  /\ engine = EngineInit
  /\ lsLedger = saveLedger(auditLog)
  /\ lsBFOs = NoItem
  /\ lsAssets = saveAssets(DefaultAssets)
  /\ lsDisclaimer = TRUE
  /\ lsKey = NoIdentity
  /\ nKeys = 0
  /\ keyCalls = <<>>
  /\ lastCall = NoCall
  /\ vault = VaultUnmounted
  /\ anchorHash = AnchorPending
  /\ scanner = ScannerConstructed
  /\ ingest = PipelineConstructed
  /\ clock = 0
  /\ nSubmitted = 0 /\ nAsync = 0 /\ nReloads = 0

VerifyStep == VerifyTimerFires \/ \E i \in 1..Len(verifying) : VerificationDone(i)

PeriodicNext ==
  \/ SubmitEvent
  \/ \E i \in 1..Len(drains) : DrainPublish(i)
  \/ \E i \in 1..Len(drains) : DrainFail(i)
  \/ VerifyTimerFires
  \/ \E i \in 1..Len(verifying) : VerificationDone(i)

\* a due timer fires, an awaited computeHash or verifyLedger settles and its
\* continuation runs
PeriodicSpec ==
  PeriodicInit /\ [][PeriodicNext]_vars /\ WF_vars(DrainStep) /\ WF_vars(VerifyStep)

\* ================================================================ claims
OldestFirst == Reverse(auditLog)

\* entries made from submitted drafts carry the submission number in their id
IsDraftEntry(e) == Len(e.id.v) = 2
SubmitNo(e)     == CHOOSE n \in 1..(MaxSubmit + 1) : e.id.v[2] = ToString(n)
DraftEntries    == {i \in 1..Len(auditLog) : IsDraftEntry(OldestFirst[i])}

IsHashChain(log) ==
  \A i \in 1..Len(log) :
     /\ (log[i].previousHash = GENESIS) <=> (i = 1)
     /\ i > 1 => log[i].previousHash = log[i - 1].hash
     /\ log[i].hash = Str(sha256(canonicalize(EntryPayload(log[i]))))

\* the ledger, held newest first, is a hash chain that verifyLedger accepts
ValidChain(reverseLog) ==
  /\ IsHashChain(Reverse(reverseLog))
  /\ verifyLedger(reverseLog) = VerifyOK

\* C1: in every reachable state the published ledger, oldest first, is a hash
\* chain: only the oldest entry has previousHash GENESIS, every other entry's
\* previousHash is the hash of the entry before it, every hash is the digest
\* of the entry's payload, and verifyLedger reports the ledger valid.
\* Stated as: the ledger is such a chain at the start, and every step that
\* changes the ledger leaves such a chain.
C1_LedgerIsValidChain ==
  /\ ValidChain(auditLog)
  /\ [][ValidChain(auditLog')]_auditLog

C1_Witness ==
  /\ ~hashFailed
  /\ Len(auditLog) >= 3
  /\ Cardinality(DraftEntries) >= 2

\* C2: drafts appear in the chain in submission order, and two drafts submitted
\* one right after the other are adjacent: the later one's previousHash is the
\* earlier one's hash.
C2_AppendKeepsOrder ==
  \A i, j \in DraftEntries :
     i < j =>
       /\ SubmitNo(OldestFirst[i]) < SubmitNo(OldestFirst[j])
       /\ SubmitNo(OldestFirst[j]) = SubmitNo(OldestFirst[i]) + 1
            => OldestFirst[j].previousHash = OldestFirst[i].hash

\* two drafts are published, dequeued at different readings of the clock
C2_Witness ==
  \E i, j \in DraftEntries :
     /\ i < j
     /\ OldestFirst[i].timestamp /= OldestFirst[j].timestamp

\* C3: at most one drain is active; the draft being hashed was dequeued against
\* the current chain head, which is the hash of the newest published entry, so
\* the draft before it is fully published.
C3_SingleDrain ==
  /\ Len(drains) <= 1
  /\ Len(drains) = 1 => /\ isProcessingQueue
                        /\ drains[1].previousHash = latestHashRef
                        /\ Len(auditLog) > 0
                        /\ drains[1].previousHash = auditLog[1].hash
  /\ Len(drains) = 0 => ~isProcessingQueue

\* a draft is being hashed while another one waits in the queue
C3_Witness ==
  /\ Len(drains) = 1
  /\ Len(auditQueueRef) >= 1

Pending(n) ==
  \/ \E i \in 1..Len(auditQueueRef) : SubmitNo(auditQueueRef[i]) = n
  \/ \E i \in 1..Len(drains) : SubmitNo(drains[i].eventData) = n

Published(n) ==
  \E i \in 1..Len(auditLog) : IsDraftEntry(auditLog[i]) /\ SubmitNo(auditLog[i]) = n

AnyPending == auditQueueRef /= <<>> \/ drains /= <<>>

\* C4: unless a hash computation fails, every accepted draft is eventually
\* published: each one is queued, being hashed or published, the queued and
\* hashed ones eventually run out, and the queue processing is idle only when
\* the queue is empty.
C4_AcceptedIsPublished ==
  /\ [](\A n \in 1..nSubmitted : Pending(n) \/ Published(n) \/ hashFailed)
  /\ AnyPending ~> (~AnyPending \/ hashFailed)
  /\ [](~hashFailed /\ ~isProcessingQueue => auditQueueRef = <<>>)

\* every submitted draft is published and the queue processing is idle again
C4_Witness ==
  /\ ~hashFailed
  /\ nSubmitted >= 2
  /\ Cardinality(DraftEntries) = nSubmitted
  /\ ~AnyPending

\* C5: while the status is HALTED no entry is appended, the chain head does
\* not move and no BFO is added.
C5_HaltStopsMutation ==
  [][(systemStatus = "HALTED" /\ systemStatus' = "HALTED")
       => (auditLog' = auditLog /\ latestHashRef' = latestHashRef /\ bfos' = bfos)]_vars

\* C6: once the digest of a dequeued draft has failed, the status is HALTED
\* and the halt reason is HASHING_PIPELINE_FAILURE.
C6_HashFailureHalts ==
  hashFailed => /\ systemStatus = "HALTED"
                /\ haltReason = <<"HASHING_PIPELINE_FAILURE">>

\* the digest failed while another draft was waiting in the queue
C6_Witness ==
  /\ hashFailed
  /\ Len(auditQueueRef) >= 1

\* C7: no step of the running page changes the status from HALTED to another
\* status; HALTED is left only by a page load (forceRestart reloads the page).
C7_HaltedIsTerminal ==
  [][systemStatus = "HALTED"
       => (systemStatus' = "HALTED" \/ (boot'.pc = "mount" /\ nReloads' = nReloads + 1))]_vars

\* halted while an integrity verification started earlier is still running
C7_Witness ==
  /\ systemStatus = "HALTED"
  /\ Len(verifying) = 1

BootFoundCorruptLedger ==
  /\ boot.pc = "done"
  /\ Len(boot.storedLog) > 0
  /\ ~verifyLedger(boot.storedLog).valid

\* C8: after a boot that found a stored ledger failing verifyLedger, the status
\* is HALTED, the halt reason carries the verifier's message, the in-memory
\* ledger, BFO list and chain head are as constructed, and the stored ledger
\* is the one that was loaded.
C8_CorruptLedgerHalts ==
  BootFoundCorruptLedger =>
    /\ systemStatus = "HALTED"
    /\ haltReason = <<"PERSISTENCE CORRUPTION: ">> \o verifyLedger(boot.storedLog).errorMsg
    /\ auditLog = <<>>
    /\ bfos = <<>>
    /\ latestHashRef = GENESIS
    /\ lsLedger = JSONText(boot.storedLog)

C8_Witness ==
  /\ BootFoundCorruptLedger
  /\ verifyLedger(boot.storedLog).errorIndex >= 0

\* C9: a boot does not replace stored ledger data by a genesis chain.
C9_BootKeepsStoredData ==
  [][(lsLedger.present /\ boot.pc = "genesis") => lsLedger' = lsLedger]_vars

GenesisPublished(log, head, status) ==
  /\ Len(log) = 1
  /\ log[1].previousHash = GENESIS
  /\ log[1].hash = Str(sha256(canonicalize(EntryPayload(log[1]))))
  /\ head = log[1].hash
  /\ status = "ONLINE"

\* C10: the boot that finds no prior chain ends with a ledger of exactly one
\* entry whose previousHash is GENESIS and whose hash is the digest of its own
\* payload, with the chain head at that hash and the status ONLINE.
C10_GenesisBoot ==
  [][(boot.pc = "genesis" /\ boot'.pc = "done")
       => GenesisPublished(auditLog', latestHashRef', systemStatus')]_vars

C10_Witness ==
  /\ boot.pc = "done"
  /\ boot.genesisTime /= EmptyString
  /\ GenesisPublished(auditLog, latestHashRef, systemStatus)

\* this page load built the genesis entry and finished booting
GenesisBooted == boot.pc = "done" /\ boot.genesisTime /= EmptyString

\* C11: after a genesis boot and n accepted submissions that have all been
\* drained, the ledger has n + 1 entries, each draft is in it exactly once and
\* verifyLedger accepts it; and whenever an entry is appended its previousHash
\* is the chain head of the moment before, and the head moves to its hash.
C11_DrainedLedgerIsComplete ==
  /\ [](GenesisBooted /\ ~hashFailed /\ ~AnyPending
          => /\ Len(auditLog) = nSubmitted + 1
             /\ \A n \in 1..nSubmitted :
                   Cardinality({i \in DraftEntries : SubmitNo(OldestFirst[i]) = n}) = 1
             /\ verifyLedger(auditLog) = VerifyOK)
  /\ [][Len(auditLog') = Len(auditLog) + 1
         => /\ auditLog'[1].previousHash = latestHashRef
            /\ latestHashRef' = auditLog'[1].hash
            /\ SubSeq(auditLog', 2, Len(auditLog')) = auditLog]_vars

\* every submission the bound allows was made and drained
C11_Witness ==
  /\ GenesisBooted /\ ~hashFailed /\ ~AnyPending
  /\ nSubmitted = MaxSubmit
  /\ Len(auditLog) = MaxSubmit + 1

\* C12: a ledger the application stored is read back unharmed: the boot that
\* loads it finds it valid, ends ONLINE with the stored ledger in memory and
\* the chain head at the hash of its newest entry, and the entry appended next
\* links to that entry.
C12_StoredLedgerIsRestored ==
  /\ [][boot.pc = "verifying" /\ boot'.pc = "done"
         => /\ verifyLedger(loadLedger(lsLedger).v) = VerifyOK
            /\ systemStatus' = "ONLINE"
            /\ auditLog' = loadLedger(lsLedger).v
            /\ latestHashRef' = loadLedger(lsLedger).v[1].hash]_vars
  /\ [][Len(auditLog) > 0 /\ Len(auditLog') = Len(auditLog) + 1
         => auditLog'[1].previousHash = auditLog[1].hash]_vars

\* a ledger of two entries was restored and a third one appended to it
C12_Witness ==
  /\ nReloads >= 1
  /\ boot.pc = "done"
  /\ Len(boot.storedLog) >= 2
  /\ Len(auditLog) = Len(boot.storedLog) + 1
  /\ systemStatus = "ONLINE"

\* the stored ledger, newest first, before and after a step
StoredDoc     == lsLedger.doc
StoredDocNext == lsLedger'.doc

\* the step changes field f of the stored entry i (newest first) and nothing else
Edited(i, f) ==
  /\ lsLedger.present /\ lsLedger.parseable /\ lsLedger'.present /\ lsLedger'.parseable
  /\ i \in 1..Len(StoredDoc)
  /\ StoredDocNext[i][f] /= StoredDoc[i][f]
  /\ StoredDocNext = [StoredDoc EXCEPT ![i][f] = StoredDocNext[i][f]]

\* the oldest-first position verifyLedger gives the stored entry i
Position(doc, i) == Len(doc) - i

\* C13: in a valid stored chain, giving any one field of any one entry
\* another value, with nothing recomputed, makes verifyLedger report
\* valid = false with errorIndex the position of that entry; for every field
\* of the entry, id, hash and previousHash included.
C13_AnyFieldEditIsDetected ==
  [][\A i \in 1..MaxChain + 1 : \A f \in EntryFields :
        Edited(i, f) /\ verifyLedger(StoredDoc).valid
          => LET result == verifyLedger(StoredDocNext)
             IN  ~result.valid /\ result.errorIndex = Position(StoredDoc, i)]_vars

\* the value of a field as it enters the hashed payload
PayloadValue(entry, f) ==
  IF f \in {"rationale", "signature"} THEN OrEmpty(entry[f]) ELSE entry[f]

C15_BrokenLinkIsReportedAsChainBreak ==
  [][\A i \in 1..MaxChain + 1 :
        /\ Edited(i, "previousHash")
        /\ Position(StoredDoc, i) > 0
        /\ verifyLedger(StoredDoc).valid
        => LET result == verifyLedger(StoredDocNext)
           IN  /\ ~result.valid
               /\ result.errorIndex = Position(StoredDoc, i)
               /\ result.errorMsg[1] = "Chain Broken at Block "]_vars

\* C16: verifyLedger accepts a ledger of one entry exactly when the entry's
\* previousHash is GENESIS and its hash is the digest of its payload.
C16_GenesisLaw ==
  lsLedger.present /\ lsLedger.parseable /\ Len(StoredDoc) = 1
    => (verifyLedger(StoredDoc).valid
          <=> /\ StoredDoc[1].previousHash = GENESIS
              /\ StoredDoc[1].hash = computeHash(EntryPayload(StoredDoc[1])))

\* a single entry whose hash is right and whose previousHash is not GENESIS
\* was read at boot and refused
C16_Witness ==
  /\ lsLedger.present /\ lsLedger.parseable /\ Len(StoredDoc) = 1
  /\ StoredDoc[1].previousHash /= GENESIS
  /\ StoredDoc[1].hash = computeHash(EntryPayload(StoredDoc[1]))
  /\ systemStatus = "HALTED"
  /\ Len(haltReason) >= 2
  /\ SubSeq(haltReason, 1, 2) = <<"PERSISTENCE CORRUPTION: ", "Invalid Genesis PreviousHash: ">>

\* older is what newer ends with: newer is older with entries put in front
KeepsEntries(older, newer) ==
  /\ Len(newer) >= Len(older)
  /\ SubSeq(newer, Len(newer) - Len(older) + 1, Len(newer)) = older

\* C17: once the boot is complete and while the page stays loaded, every
\* step keeps the published entries as they are and in their order; the
\* ledger changes only by entries added at its newest end.
C17_LedgerIsAppendOnly ==
  [][boot.pc = "done" /\ boot'.pc = "done" => KeepsEntries(auditLog, auditLog')]_vars

\* two drafts were appended to a booted ledger and the result was saved
C17_Witness ==
  /\ boot.pc = "done"
  /\ Len(auditLog) = 3
  /\ lsLedger = saveLedger(auditLog)

\* the step is a call of handleCommit
HandleCommitCalled == nAsync' = nAsync + 1

\* the call got past its returns and is building the commitment object
CommitStarted == Len(engine'.commits) = Len(engine.commits) + 1

\* the step is the return from the catch block around signData
SigningFailed ==
  engine'.outcome = "signFailed" /\ Len(engine'.commits) < Len(engine.commits)

\* C18: in council mode, with three registered signers, handleCommit reached
\* through the signing flow creates no commitment object when fewer than two
\* members have signed, and goes on to create it, with the signatures of the
\* members who signed, when two or three have.
C18_CouncilQuorum ==
  [][HandleCommitCalled /\ engine.governanceMode = "JOINT_COUNCIL"
       => IF Cardinality(engine.councilSigned) < 2
            THEN ~CommitStarted /\ bfos' = bfos
            ELSE /\ CommitStarted
                 /\ Get(engine'.commits[Len(engine'.commits)].bfoContent, "signatures")
                      = Arr(FinalSignatures(engine))]_vars

\* C19: when handleCommit refuses a request, or the signing step fails, the
\* BFO list, the audit queue with the draft being hashed, the ledger and the
\* flow stage are as they were before.
C19_NoPartialCommitment ==
  [][(HandleCommitCalled /\ ~CommitStarted) \/ SigningFailed
       => /\ bfos' = bfos
          /\ lsBFOs' = lsBFOs
          /\ auditQueueRef' = auditQueueRef
          /\ drains' = drains
          /\ auditLog' = auditLog
          /\ engine'.flowStage = engine.flowStage]_vars

\* a commitment got past the guards, its signature failed, and the flow is
\* still in the SIGNING stage with no commitment object
C19_Witness ==
  /\ engine.outcome = "signFailed"
  /\ engine.flowStage = "SIGNING"
  /\ engine.commits = <<>>
  /\ bfos = <<>>

\* C20: when signing throws during the finalization of a commitment the
\* system goes to HALTED with a halt reason, as it does on ledger corruption.
C20_SigningFailureHalts ==
  [][SigningFailed => systemStatus' = "HALTED" /\ haltReason' /= <<>>]_vars

\* ---------------------------------------------------------------- C21
\* a call of generateKeyPair returns in this step: directly, or in initKeys
Returned(forceNew, keyPair) ==
  \/ /\ lastCall' /= lastCall
     /\ lastCall'.op = "generateKeyPair"
     /\ lastCall'.forceNew = forceNew
     /\ ~lastCall'.threw
     /\ lastCall'.keyPair = keyPair
  \/ /\ ~forceNew
     /\ engine.keyStatus = "GENERATING" /\ engine'.keyStatus = "READY"
     /\ engine'.userKeys = keyPair

\* a call of generateKeyPair(false) is made in this step
CalledWithoutForce ==
  \/ lastCall' /= lastCall /\ lastCall'.op = "generateKeyPair" /\ ~lastCall'.forceNew
  \/ engine.keyStatus = "GENERATING" /\ engine'.keyStatus = "READY"

CorruptStored == lsKey.present /\ RestoreThrows(lsKey)

\* C21: generateKeyPair(false) on a stored identity that does not parse or
\* does not import returns a pair made in that call, leaves that pair in
\* storage in place of the corrupt item, and changes neither the ledger, its
\* stored copy nor the system status.
C21_KeyCorruptionIsRecovered ==
  [][CalledWithoutForce /\ CorruptStored
       => /\ Returned(FALSE, CryptoKeyPair(nKeys + 1))
          /\ nKeys' = nKeys + 1
          /\ lsKey' = IdentityOf(CryptoKeyPair(nKeys + 1))
          /\ Restores(FALSE, lsKey')
          /\ auditLog' = auditLog /\ lsLedger' = lsLedger
          /\ auditQueueRef' = auditQueueRef
          /\ systemStatus' = systemStatus /\ haltReason' = haltReason]_vars

C21_Witness ==
  /\ lastCall.op = "generateKeyPair"
  /\ ~lastCall.forceNew
  /\ lastCall.found \in CorruptIdentities
  /\ lastCall.keyPair = CryptoKeyPair(2)
  /\ lsKey = IdentityOf(CryptoKeyPair(2))
  /\ systemStatus = "ONLINE"

\* ---------------------------------------------------------------- C22
\* C22: generateKeyPair(false) on a stored pair that imports returns that
\* pair and leaves storage as it is; a call makes a new pair exactly when
\* nothing is stored, the stored item is corrupt or forceNew is true, and the
\* new pair is then the stored identity.
C22_IdentityIsReused ==
  [][\A forceNew \in BOOLEAN :
       \A kid \in 0..MaxKeys :
         Returned(forceNew, CryptoKeyPair(kid))
           => IF ~forceNew /\ lsKey.present /\ ~RestoreThrows(lsKey)
                THEN /\ lsKey = IdentityOf(CryptoKeyPair(kid))
                     /\ lsKey' = lsKey
                     /\ nKeys' = nKeys
                ELSE /\ forceNew \/ ~lsKey.present \/ CorruptStored
                     /\ kid = nKeys + 1
                     /\ nKeys' = nKeys + 1
                     /\ lsKey' = IdentityOf(CryptoKeyPair(kid))]_vars

\* the engine holds pair 1, which only an earlier session can have made
C22_Witness ==
  /\ engine.keyStatus = "READY"
  /\ engine.userKeys = CryptoKeyPair(1)
  /\ nKeys = 1
  /\ lsKey = IdentityOf(CryptoKeyPair(1))

\* ---------------------------------------------------------------- C23
\* verifySignature was called with the public key of the pair that signed
VerifiedUnderSigner ==
  /\ lastCall.op = "verifySignature"
  /\ lastCall.publicKey.kid = lastCall.signed.privateKey.kid

\* C23: verifySignature under the signer's public key resolves to true for the
\* signature signData returned and the digest it signed, and resolves to
\* false when the digest or the signature is a different string.
C23_SignVerifyRoundTrip ==
  VerifiedUnderSigner
    => IF /\ lastCall.data = lastCall.signed.data
          /\ lastCall.signature = lastCall.signed.signature
         THEN ~lastCall.result.threw /\ lastCall.result.value
         ELSE ~lastCall.result.threw /\ ~lastCall.result.value

\* ---------------------------------------------------------------- C24
Canonicalized == lastCall.op = "canonicalize"

ElementStrings(x) == [i \in 1..Len(x.v) |-> canonicalize(x.v[i])]

Contains(str, part) ==
  \E i \in 1..(Len(str) - Len(part) + 1) : SubSeq(str, i, i + Len(part) - 1) = part

\* C25: a record and the record with one more key canonicalize to the same
\* string when the value of that key is undefined; when it is null the key is
\* written with the value null; null and undefined themselves give "null".
C25_UndefinedFieldsOmitted ==
  Canonicalized
    => /\ \A k \in {"id", "name"} :
            WithKey(lastCall.data, k, lastCall.other)
              => /\ Get(lastCall.other.v, k) = Undefined => lastCall.otherJson = lastCall.json
                 /\ Get(lastCall.other.v, k) = Null
                      => /\ Contains(lastCall.otherJson, <<"\"", k, "\"", ":", "null">>)
                         /\ lastCall.otherJson /= lastCall.json
       /\ lastCall.data \in {Null, Undefined} => lastCall.json = <<"null">>

C25_Witness ==
  /\ Canonicalized
  /\ lastCall.data = Obj(<<KV("id", Lit("1"))>>)
  /\ lastCall.other = Obj(<<KV("name", Undefined), KV("id", Lit("1"))>>)
  /\ lastCall.json = <<"{", "\"", "id", "\"", ":", "1", "}">>
  /\ lastCall.otherJson = lastCall.json

\* ---------------------------------------------------------------- C26
IntegrityMoves ==
  { <<"VERIFYING", "SECURE">>, <<"VERIFYING", "COMPROMISED">>, <<"SECURE", "VERIFYING">> }

TriggerAnchorCalled == lastCall' /= lastCall /\ lastCall'.op = "triggerAnchor"

\* the drafts accepted and not yet published
Waiting(queue, inFlight) ==
  [i \in 1..(Len(inFlight) + Len(queue)) |->
     IF i <= Len(inFlight) THEN inFlight[i].eventData ELSE queue[i - Len(inFlight)]]

IsAnchor(e) == e.action = Str(<<"EXTERNAL_ANCHOR_PUBLISHED">>)

\* C27: a call of triggerAnchor with status ONLINE submits one
\* EXTERNAL_ANCHOR_PUBLISHED event that records the chain head read in the
\* call and shows that head as the anchor hash; a call with another status
\* changes neither the queue nor the anchor hash; and every anchor event of
\* the ledger records the hash of an entry that is older than it in the chain.
C27_ExternalAnchor ==
  /\ [](\A i \in 1..Len(auditLog) :
          IsAnchor(auditLog[i])
            => \E j \in (i + 1)..Len(auditLog) :
                  Get(auditLog[i].metadata.v, "sourceHash") = auditLog[j].hash)
  /\ [][TriggerAnchorCalled
          => IF systemStatus = "ONLINE"
               THEN /\ Len(Waiting(auditQueueRef', drains'))
                         = Len(Waiting(auditQueueRef, drains)) + 1
                    /\ \E e \in {Waiting(auditQueueRef', drains')[Len(Waiting(auditQueueRef', drains'))]} :
                          /\ IsAnchor(e)
                          /\ Get(e.metadata.v, "sourceHash") = latestHashRef
                    /\ anchorHash' = latestHashRef
                    /\ \E j \in 1..Len(auditLog) : auditLog[j].hash = latestHashRef
               ELSE /\ auditQueueRef' = auditQueueRef
                    /\ drains' = drains
                    /\ anchorHash' = anchorHash]_vars

\* an anchor published behind a draft that was waiting when it was triggered
C27_Witness ==
  /\ Len(auditLog) = 3
  /\ IsAnchor(auditLog[1])
  /\ ~IsAnchor(auditLog[2])
  /\ Get(auditLog[1].metadata.v, "sourceHash") = auditLog[3].hash
  /\ anchorHash = auditLog[3].hash

\* ---------------------------------------------------------------- C28
Signed(entry) == entry.signature /= EmptyString

\* signature verifies as a signature of digest under the public key of one
\* of the pairs
IsSignatureOver(signature, digest) ==
  \E kid \in 1..MaxKeys :
    verifySignature(CryptoKeyPair(kid).publicKey, signature.v, digest.v)
      = [threw |-> FALSE, value |-> TRUE]

\* C28: the signature of every ledger entry that has one is a signature over
\* the hash field of that entry.
C28_SignatureIsOverOwnDigest ==
  \A i \in 1..Len(auditLog) :
    Signed(auditLog[i]) => IsSignatureOver(auditLog[i].signature, auditLog[i].hash)

\* the payload of a commitment object without its hash field
WithoutHash(bfo) == Obj(SelectSeq(bfo.v, LAMBDA p : p.k /= "hash"))

\* C29: every commitment object of the store, whichever path created it
\* (signing flow, drive scanner, ingestion pipeline, Exhibit Z builder),
\* has as its hash field the computeHash of its own payload without the
\* hash field.
C29_HashIsOwnContentHash ==
  \A i \in 1..Len(bfos) : Get(bfos[i].v, "hash") = computeHash(WithoutHash(bfos[i]))

\* runBootSequence has set the status to ONLINE on this page: it still is
\* ONLINE, or the page has halted since with its ledger published
BootCompleted == boot.pc = "done" /\ (systemStatus = "ONLINE" \/ Len(auditLog) > 0)

\* the chain head is the hash of the newest published entry
HeadIsNewest == Len(auditLog) > 0 /\ latestHashRef = auditLog[1].hash

\* a step that moves the chain head of a booted page publishes, in the same
\* step, an entry with that hash as the newest one
HeadMovesWithLedger ==
  (boot.pc = "done" /\ boot'.pc = "done" /\ latestHashRef' /= latestHashRef)
    => /\ Len(auditLog') = Len(auditLog) + 1
       /\ auditLog'[1].hash = latestHashRef'

\* every draft a step dequeues carries the head as it is after that step's
\* own publication, the value line 169 reads
DequeuedAgainstHead ==
  \A i \in 1..Len(drains') :
    (\A j \in 1..Len(drains) : drains[j] /= drains'[i])
      => drains'[i].previousHash = latestHashRef'

\* C30: after boot the chain head is the hash of the newest entry of the
\* published ledger; the drain moves the head and publishes the entry in one
\* step; each dequeued draft takes as previousHash the head read at its
\* dequeue.
C30_ChainHead ==
  /\ [](BootCompleted => HeadIsNewest)
  /\ [][HeadMovesWithLedger /\ DequeuedAgainstHead]_vars

\* a booted page has published a submitted event and dequeued the next draft
\* against the new head
C30_Witness ==
  /\ BootCompleted
  /\ Len(auditLog) = 2
  /\ latestHashRef = auditLog[1].hash
  /\ auditLog[1].previousHash = auditLog[2].hash
  /\ Len(drains) = 1
  /\ drains[1].previousHash = auditLog[1].hash

\* the clock reading an ISO timestamp was made from
TimeOf(timestamp) == CHOOSE t \in 0..MaxClock : ISOString(t) = timestamp

\* a step that dequeues a draft stamps it with the clock as read in that step
StampedAtDequeue ==
  \A i \in 1..Len(drains') :
    (\A j \in 1..Len(drains) : drains[j] /= drains'[i])
      => drains'[i].timestamp = ISOString(clock')

\* a draft, queued or being hashed, carries no timestamp of its caller
NoCallerTimestamp ==
  /\ \A i \in 1..Len(auditQueueRef) : "timestamp" \notin DOMAIN auditQueueRef[i]
  /\ \A i \in 1..Len(drains) : "timestamp" \notin DOMAIN drains[i].eventData

\* the timestamps of the published ledger do not decrease from oldest to newest
TimestampsInOrder ==
  \A i, j \in 1..Len(auditLog) :
    i < j => TimeOf(auditLog[i].timestamp) >= TimeOf(auditLog[j].timestamp)

\* C31: the drain stamps a draft when it dequeues it, never at submission
\* and never with a value of the caller; the clock not running backwards,
\* the timestamps of the ledger do not decrease from oldest to newest.
C31_TimestampAtDequeue ==
  /\ [](NoCallerTimestamp /\ TimestampsInOrder)
  /\ [][StampedAtDequeue /\ clock' >= clock]_vars

\* an event dequeued after the clock advanced follows, in the ledger, an
\* entry stamped before
C31_Witness ==
  /\ Len(auditLog) = 3
  /\ TimeOf(auditLog[1].timestamp) = 1
  /\ TimeOf(auditLog[3].timestamp) = 0
  /\ auditLog[1].previousHash = auditLog[2].hash

\* the digest check of the entry at 0-based oldest-first index i fails
DigestCheckFails(log, i) == computeHash(EntryPayload(log[i + 1])) /= log[i + 1].hash

\* its genesis check (i = 0) or linkage check (i > 0) fails
LinkCheckFails(log, i) ==
  IF i = 0 THEN log[1].previousHash /= GENESIS
  ELSE log[i + 1].previousHash /= log[i].hash

\* the oldest-first indices at which some check fails
FailingIndices(log) ==
  {i \in 0..(Len(log) - 1) : DigestCheckFails(log, i) \/ LinkCheckFails(log, i)}

\* what the claim says verifyLedger returns for a ledger, newest first
SinglePass(reverseLog, result) ==
  LET log     == Reverse(reverseLog)
      failing == FailingIndices(log)
  IN  /\ result.valid <=> failing = {}
      /\ result.valid <=> result.errorIndex = -1
      /\ ~result.valid =>
            /\ result.errorIndex \in failing
            /\ \A i \in failing : result.errorIndex <= i
            /\ (result.errorMsg[1] = "Hash Mismatch at Block ")
                  <=> DigestCheckFails(log, result.errorIndex)

\* C32: verifyLedger is one oldest-first pass that stops at the first
\* failure: errorIndex is the smallest oldest-first index at which a check
\* fails, the digest check of an entry comes before its genesis or linkage
\* check, errorIndex is -1 exactly when valid is true, and the empty ledger
\* is valid.  Stated of the verification the boot has run on the stored
\* ledger, whose outcome decides between ONLINE and HALTED.
C32_VerifyIsSinglePass ==
  /\ verifyLedger(<<>>) = VerifyOK
  /\ (boot.pc = "done" /\ Len(boot.storedLog) > 0)
       => \E result \in {verifyLedger(boot.storedLog)} :
            /\ SinglePass(boot.storedLog, result)
            /\ result.valid <=> systemStatus = "ONLINE"
            /\ ~result.valid =>
                  haltReason = <<"PERSISTENCE CORRUPTION: ">> \o result.errorMsg

\* the boot has verified a ledger in which checks fail at two indices, the
\* older one being a linkage failure with a matching digest
C32_Witness ==
  /\ boot.pc = "done"
  /\ Len(boot.storedLog) = 3
  /\ \E result \in {verifyLedger(boot.storedLog)} :
       /\ result.errorIndex = 1
       /\ result.errorMsg[1] = "Chain Broken at Block "
       /\ FailingIndices(Reverse(boot.storedLog)) = {1, 2}

\* the ledger in memory is not empty and verifyLedger rejects it
LedgerInvalid == Len(auditLog) > 0 /\ ~verifyLedger(auditLog).valid

\* the page is halted with the message verifyLedger gives for the ledger
HaltedByVerifier ==
  /\ systemStatus = "HALTED"
  /\ haltReason = verifyLedger(auditLog).errorMsg

\* every change of the ledger of an ONLINE page leaves the timer set, and a
\* timer that fires verifies the ledger of that moment and no other
TimerFollowsLedger ==
  /\ (auditLog' /= auditLog /\ systemStatus' = "ONLINE") => verifyTimer'
  /\ Len(verifying') > Len(verifying)
       => /\ verifyTimer /\ ~verifyTimer'
          /\ verifying'[Len(verifying')] = verifyLedger(auditLog)

\* C33: while the status is ONLINE an invalid ledger in memory is, once the
\* ledger stops changing, verified and the page halts with the verifier's
\* message (unless a failed hash computation has halted it first); a ledger
\* change before the timer fires replaces the scheduled verification by one
\* of the newer ledger.
C33_PeriodicCheckHalts ==
  /\ (systemStatus = "ONLINE" /\ LedgerInvalid) ~> (HaltedByVerifier \/ hashFailed)
  /\ [](systemStatus = "ONLINE" /\ LedgerInvalid => verifyTimer \/ Len(verifying) > 0)
  /\ [][TimerFollowsLedger]_vars

\* an invalid ledger grew by a published event before it was verified, and
\* the page then halted with the verifier's message
C33_Witness ==
  /\ HaltedByVerifier
  /\ LedgerInvalid
  /\ Len(auditLog) = 3
  /\ ~hashFailed

\* this page was loaded by forceRestart
Restarted == lastCall = [op |-> "forceRestart"]

\* the step is the click on EMERGENCY RESET
ForceRestartStep == nReloads' = nReloads + 1 /\ lastCall' = [op |-> "forceRestart"]

\* nothing of the ledger, the BFOs, the assets and the acceptance is stored
Wiped ==
  /\ ~lsLedger.present /\ ~lsBFOs.present /\ ~lsAssets.present /\ ~lsDisclaimer

\* the steps of a wipe and of the page load that follows it
WipeAndReinitialize ==
  /\ ForceRestartStep => /\ Wiped' /\ lsKey' = lsKey
                          /\ boot'.pc = "mount" /\ Len(auditLog') = 0
  /\ (Restarted /\ Restarted' /\ boot.pc = "mount" /\ boot'.pc /= "mount")
       => /\ systemStatus' = "ONBOARDING" /\ boot'.pc = "idle"
          /\ Wiped' /\ lsKey' = lsKey
  /\ (Restarted /\ Restarted' /\ boot.pc = "idle" /\ boot'.pc /= "idle")
       => \/ boot'.pc = "genesis" /\ systemStatus' = "BOOTING" /\ ~lsLedger'.present
          \/ boot'.pc = "done" /\ systemStatus' = "HALTED" /\ Len(auditLog') = 0
  /\ (Restarted /\ Restarted' /\ boot.pc = "genesis" /\ boot'.pc /= "genesis")
       => /\ boot'.pc = "done" /\ systemStatus' = "ONLINE"
          /\ Len(auditLog') = 1
          /\ auditLog'[1] = GenesisEvent(boot.genesisTime,
                                          computeHash(GenesisPayload(boot.genesisTime)))
          /\ latestHashRef' = auditLog'[1].hash
          /\ bfos' = <<>>
          /\ lsLedger' = saveLedger(auditLog')

\* C34: forceRestart removes the stored ledger, BFOs, assets and disclaimer
\* acceptance and leaves the stored identity alone; the page it loads goes
\* to ONBOARDING, and the boot that then completes publishes a fresh
\* genesis chain of length 1 and is ONLINE.
C34_WipeAndReinitialize ==
  /\ [][WipeAndReinitialize]_vars
  /\ [](Restarted /\ boot.pc \in {"mount", "idle"} => Wiped)

\* a page loaded by forceRestart, with the identity an earlier page stored
\* still in storage, has booted by genesis
C34_Witness ==
  /\ Restarted
  /\ boot.pc = "done"
  /\ systemStatus = "ONLINE"
  /\ Len(auditLog) = 1
  /\ lsKey.present
  /\ engine.keyStatus = "GENERATING"
  /\ nKeys = 1

\* ------------------------------------------------- C35: a failed digest
\* the ids of the published entries
PublishedIds(log) == {log[k].id : k \in 1..Len(log)}

\* the ids of the drafts waiting in the queue or held by a drain
PendingIds(queue, inFlight) ==
  {queue[k].id : k \in 1..Len(queue)} \cup {inFlight[k].eventData.id : k \in 1..Len(inFlight)}

\* drain i ends in the catch block of processQueue
HashFailsFor(i) == DrainFail(i)

\* what the failure of drain i leaves behind
FailedDraftDropped(i) ==
  /\ drains[i].eventData.id \notin PublishedIds(auditLog')
  /\ drains[i].eventData.id \notin PendingIds(auditQueueRef', drains')
  /\ auditLog' = auditLog
  /\ latestHashRef' = latestHashRef
  /\ latestHashRef' = drains[i].previousHash
  /\ lsLedger' = lsLedger
  /\ isProcessingQueue' = FALSE
  /\ auditQueueRef' = auditQueueRef
  /\ drains' = <<>>

\* after a failure no drain runs until a later addAuditEvent call starts one,
\* and the queue is shifted only by such a call or by the drain it started
\* (or emptied by a page load)
QueueLeftAlone ==
  /\ (hashFailed /\ drains = <<>> /\ drains' /= <<>>) => nSubmitted' = nSubmitted + 1
  /\ (hashFailed /\ auditQueueRef' /= auditQueueRef)
       => (nSubmitted' = nSubmitted + 1 \/ drains /= <<>> \/ boot'.pc = "mount")

\* no published entry has a payload the digest rejects
NoUnhashablePublished ==
  \A k \in 1..Len(auditLog) : ~computeHashRejects(EntryPayload(auditLog[k]))

InvalidGenesisResult(rest, result) ==
  /\ ~result.valid
  /\ result.errorIndex = 0
  /\ result.errorMsg = <<"Invalid Genesis PreviousHash: ">> \o rest[Len(rest)].previousHash.v

\* what verifyLedger says of every truncation of the valid chain reverseLog
TruncationsOf(reverseLog) ==
  /\ \A k \in 0..Len(reverseLog) : verifyLedger(WithoutNewest(reverseLog, k)) = VerifyOK
  /\ \A j \in 1..(Len(reverseLog) - 1) :
       InvalidGenesisResult(WithoutOldest(reverseLog, j),
                            verifyLedger(WithoutOldest(reverseLog, j)))

\* the boot that found the stored ledger has finished
BootedFrom(op) ==
  /\ boot.pc = "done"
  /\ lastCall.op = op
  /\ Len(boot.storedLog) > 0

BfoIdOf(event) ==
  LET m == event.metadata
      c == Get(m.v, "context")
  IN  IF m.t /= "obj" THEN Undefined
      ELSE IF HasKey(m.v, "bfoId") THEN Get(m.v, "bfoId")
      ELSE IF c.t = "obj" /\ HasKey(c.v, "bfoId") THEN Get(c.v, "bfoId")
      ELSE Undefined

StoredBfoIds == {Get(bfos[i].v, "id") : i \in 1..Len(bfos)}

PublishedBfoIds == {BfoIdOf(auditLog[k]) : k \in 1..Len(auditLog)}

PendingBfoIds ==
  {BfoIdOf(auditQueueRef[k]) : k \in 1..Len(auditQueueRef)}
    \cup {BfoIdOf(drains[k].eventData) : k \in 1..Len(drains)}

\* a step of one of the four places that call addBFO
CommitStep ==
  \/ \E i \in 1..Len(engine.commits) : handleCommitSigned(i)
  \/ commitToVault
  \/ \E i \in 1..Len(ingest.queue) : processItem(i)
  \/ buildExhibitZHashed

\* the object and a draft naming it are taken together, or neither is
BothOrNeither ==
  \/ /\ Len(bfos') = Len(bfos) + 1
     /\ Tail(bfos') = bfos
     /\ Len(auditQueueRef') + Len(drains') = Len(auditQueueRef) + Len(drains) + 1
     /\ LET taken == IF Len(auditQueueRef') > 0
                       THEN auditQueueRef'[Len(auditQueueRef')]
                       ELSE drains'[Len(drains')].eventData
        IN  BfoIdOf(taken) = Get(bfos'[1].v, "id")
  \/ /\ bfos' = bfos
     /\ auditQueueRef' = auditQueueRef
     /\ drains' = drains

AllBfosPublished == StoredBfoIds \subseteq PublishedBfoIds

\* C37: the store changes only where addBFO is followed by addAuditEvent, and
\* there the object and a draft carrying its id are accepted together or
\* refused together; unless a digest fails, every stored object is named by a
\* queued, dequeued or published draft, and eventually by a published entry
C37_BfoHasAuditEntry ==
  /\ [](hashFailed \/ StoredBfoIds \subseteq (PendingBfoIds \cup PublishedBfoIds))
  /\ [][(bfos' /= bfos => CommitStep) /\ (CommitStep => BothOrNeither)]_vars
  /\ (~AllBfosPublished) ~> (AllBfosPublished \/ hashFailed)

\* an auto-ingested object and the Exhibit Z bundle are stored, and the
\* drained ledger names each of them
C37_Witness ==
  /\ ~hashFailed
  /\ Len(bfos) >= 2
  /\ \E i \in 1..Len(bfos) : Get(bfos[i].v, "id").v[1] = "EXZ-"
  /\ AllBfosPublished
  /\ auditQueueRef = <<>> /\ drains = <<>>

\* ------------------------------------------- C38: one object per signing
\* the commitment objects named by queued, dequeued or published drafts
CommitDraftIds == (PendingBfoIds \cup PublishedBfoIds) \ {Undefined}

\* the flows started so far; a flow enters the SIGNING stage at most once
\* (initiateSigning, from the DECISION stage handleAnalyze leads to)
SigningStagesEntered == engine.nFlows

\* C38: one SIGNING stage adds at most one commitment object and submits at
\* most one commit draft, also when the commit button is clicked again while
\* an earlier handleCommit awaits its hash or signature
C38_OneObjectPerSigning ==
  /\ Len(bfos) <= SigningStagesEntered
  /\ Cardinality(CommitDraftIds) <= SigningStagesEntered

\* ------------------------------------------- C39: overlapping key calls
\* the calls that have returned
CompletedKeyCalls == {i \in 1..Len(keyCalls) : keyCalls[i].pc = "done"}

\* C39: the pair a completed generateKeyPair call returned is the pair in
\* storage, also when two calls overlap while no identity is stored
C39_ReturnedPairIsPersisted ==
  \A i \in CompletedKeyCalls : lsKey = IdentityOf(keyCalls[i].keyPair)

====
